---- MODULE Spec2Model ----
(***************************************************************************)
(* Model of the dk-flask options screener: schwab_api.py (token handling,  *)
(* the per-symbol quote/chain fetches, the strategy evaluators and the    *)
(* fetch_*_data entry points) and app.py (payload validation, the         *)
(* /api/fetch-* routes, the saved configuration and the batch run).       *)
(*                                                                         *)
(* Numbers.  Prices, strikes, bids and asks are whole cents (a quote of    *)
(* 9.50 is 950); the per-contract amounts the code multiplies by 100 are   *)
(* therefore cents as well.  Percentages and annualised percentages are    *)
(* exact fractions [n, d] with d > 0.  Python computes all of these in     *)
(* IEEE doubles; the model computes them exactly, so it says nothing       *)
(* about rounding error of the doubles.  Quotes are drawn so that bid+ask  *)
(* is even, which makes every midpoint a whole number of cents.            *)
(*                                                                         *)
(* JSON objects whose key order matters (Python dicts keep insertion       *)
(* order) are sequences of entries.                                        *)
(***************************************************************************)
EXTENDS Integers, Sequences, FiniteSets, TLC

(***************************************************************************)
(* Generic helpers                                                         *)
(***************************************************************************)

\* records.extend(...) over a loop: the concatenation of F(lo), ..., F(hi)
ConcatMap(lo, hi, F(_)) ==
    LET acc[i \in (lo - 1)..hi] == IF i < lo THEN <<>> ELSE acc[i - 1] \o F(i)
    IN  IF hi < lo THEN <<>> ELSE acc[hi]

\* "value = ...; F(value)": F of a value that is computed once
Bind(value, F(_)) == CHOOSE y \in {F(x) : x \in {value}} : TRUE

\* list.sort() on numbers: ascending
SortAsc(seq) ==
    LET ins(sorted, x) ==
            LET k == Cardinality({i \in 1..Len(sorted) : sorted[i] <= x})
            IN  SubSeq(sorted, 1, k) \o <<x>> \o SubSeq(sorted, k + 1, Len(sorted))
        acc[i \in 0..Len(seq)] == IF i = 0 THEN <<>> ELSE ins(acc[i - 1], seq[i])
    IN  acc[Len(seq)]

\* list.sort(reverse=True) on numbers: descending
SortDesc(seq) ==
    LET asc == SortAsc(seq)
    IN  [i \in 1..Len(asc) |-> asc[Len(asc) + 1 - i]]

\* the greatest common divisor of a >= 0 and b >= 0 (Euclid)
RECURSIVE GCD(_, _)
GCD(a, b) == IF b = 0 THEN a ELSE GCD(b, a % b)

\* the absolute value
Abs(n) == IF n < 0 THEN -n ELSE n

\* Python's true division n / d (d # 0) as an exact fraction in lowest terms
\* with d > 0
Frac(n, d) ==
    IF d < 0 THEN [n |-> (-n) \div GCD(Abs(n), Abs(d)), d |-> (-d) \div GCD(Abs(n), Abs(d))]
    ELSE [n |-> n \div GCD(Abs(n), Abs(d)), d |-> d \div GCD(Abs(n), Abs(d))]

\* the number 0 as a fraction (the code's "else 0" branches)
FracZero == [n |-> 0, d |-> 1]

\* r * k and r / k for an integer k (k # 0 for the division)
FracTimes(r, k) == Frac(r.n * k, r.d)
FracOver(r, k) == Frac(r.n, r.d * k)

\* comparisons of fractions (denominators are positive)
FracLess(a, b) == a.n * b.d < b.n * a.d
FracEq(a, b) == a.n * b.d = b.n * a.d

\* Python's int(x) for the real number n / d, d > 0: truncation toward zero
IntTrunc(n, d) == IF n >= 0 THEN n \div d ELSE -((-n) \div d)

(***************************************************************************)
(* Strike keys.  The provider keys a strike map by strings such as "95",   *)
(* "95.0", "95.5" or "95.50".  A key is [w, f]: the digits before the      *)
(* point and the sequence of digits after it (<<>> = no point).            *)
(***************************************************************************)

\* float(strike_str), in cents (keys carry at most two decimals)
float(key) ==
    key.w * 100
    + (IF Len(key.f) = 0 THEN 0
       ELSE IF Len(key.f) = 1 THEN key.f[1] * 10
       ELSE key.f[1] * 10 + key.f[2])

\* str(strike) of a float: shortest repr, always with a decimal point
str_float(strike) ==
    LET frac == strike % 100
    IN  [w |-> strike \div 100,
         f |-> IF frac % 10 = 0 THEN <<frac \div 10>> ELSE <<frac \div 10, frac % 10>>]

\* str(int(strike)): integer-truncated, no decimal point
str_int(strike) == [w |-> IntTrunc(strike, 100), f |-> <<>>]

\* f"{strike:.1f}": one decimal, round-half-even (exact for the quarter-dollar
\* strikes used here, which doubles represent exactly)
format_1f(strike) ==
    LET t == strike \div 10
        r == strike % 10
        tenths == IF r < 5 THEN t
                  ELSE IF r > 5 THEN t + 1
                  ELSE IF t % 2 = 0 THEN t ELSE t + 1
    IN  [w |-> tenths \div 10, f |-> <<tenths % 10>>]

\* the value None
None == [none |-> TRUE]

\* key in strike_map
HasKey(strike_map, key) == \E i \in 1..Len(strike_map) : strike_map[i].key = key

\* strike_map[key] (the key is present)
GetOpts(strike_map, key) ==
    strike_map[CHOOSE i \in 1..Len(strike_map) : strike_map[i].key = key].opts

\* a lookup that finds every key of the strike's value, whatever its format
_find_strike_key_AnyFormat(strike_map, strike) ==
    IF \E i \in 1..Len(strike_map) : float(strike_map[i].key) = strike
    THEN strike_map[CHOOSE i \in 1..Len(strike_map) : float(strike_map[i].key) = strike].key
    ELSE None

\* _find_strike_key, and the same probe written inline in the call and put
\* spread evaluators: first hit among the three formats, else None
_find_strike_key(strike_map, strike) ==
    IF HasKey(strike_map, str_float(strike)) THEN str_float(strike)
    ELSE IF HasKey(strike_map, str_int(strike)) THEN str_int(strike)
    ELSE IF HasKey(strike_map, format_1f(strike)) THEN format_1f(strike)
    ELSE None

\* [float(s) for s in strike_map.keys()]
StrikesOf(strike_map) == [i \in 1..Len(strike_map) |-> float(strike_map[i].key)]

(***************************************************************************)
(* Metric helpers                                                          *)
(***************************************************************************)

\* _dt.date.today(), as a day number; expirationDate is a day number too
Today == 0

\* _calculate_dte
_calculate_dte(expiration_iso) == expiration_iso - Today

\* (bid + ask) / 2
Mid(bid, ask) == (bid + ask) \div 2

\* _calculate_metrics (covered call), pct = 50
_calculate_metrics(price, strike, bid, ask, dte) ==
    LET call_price == bid + (ask - bid) \div 2
        cost == (price - call_price) * 100
        max_profit == (strike * 100) - cost
        pct_call == IF cost # 0 THEN FracTimes(Frac(max_profit, cost), 100) ELSE FracZero
        ann_pct_call == IF dte # 0 THEN FracOver(FracTimes(pct_call, 365), dte) ELSE FracZero
    IN  [cost |-> cost, maxProfit |-> max_profit,
         pctCall |-> pct_call, annPctCall |-> ann_pct_call]

\* _calculate_collar_metrics
_calculate_collar_metrics(price, strike, call_mid, put_mid, dte) ==
    LET net_cost == (price - call_mid + put_mid) * 100
        collar == (strike - price + call_mid - put_mid) * 100
        ann_return == IF net_cost # 0 /\ dte # 0
                      THEN FracTimes(FracOver(FracTimes(Frac(collar, net_cost), 365), dte), 100)
                      ELSE FracZero
        strike_pct == IF price # 0 THEN Frac(strike * 100, price) ELSE FracZero
    IN  [netCost |-> net_cost, collar |-> collar,
         annReturn |-> ann_return, strikePricePct |-> strike_pct]

(***************************************************************************)
(* Strategy evaluators: the part of each _fetch_* helper that runs after   *)
(* the quote and the chain have been fetched.  price is the quoted price,  *)
(* call_map / put_map are callExpDateMap / putExpDateMap: sequences of     *)
(* [exp, strikes], strikes a sequence of [key, opts], opts the list of     *)
(* contracts [expirationDate, bid, ask] under that strike key.  p holds    *)
(* min_strike_pct, max_strike_pct, min_dte, max_dte (and max_spread).      *)
(* The result is [exc, records]: exc names the exception that escapes the  *)
(* helper ("none" when it returns).  The display fields expDate and the    *)
(* strike percentages are left out of the records.                         *)
(***************************************************************************)

\* strike bounds "price * (pct / 100)  # Keep as float", times 100
\* (price * pct <= s * 100 is min_strike <= s)
Bound100(price, pct) == price * pct

\* strike bounds "int(price * (pct / 100))" of covered call and collar, in cents
BoundInt(price, pct) == IntTrunc(price * pct, 10000) * 100

\* [s for s in strikes if min_strike <= s <= max_strike], bounds times 100
ValidStrikes(strikes, min_strike, max_strike) ==
    SelectSeq(strikes, LAMBDA s : min_strike <= s * 100 /\ s * 100 <= max_strike)

\* "(pct * 365) / dte if dte > 0 else 0" of the spread evaluators
Annualize(pct_gain, dte) ==
    IF dte > 0 THEN FracOver(FracTimes(pct_gain, 365), dte) ELSE FracZero

(* ------------------------- covered call ------------------------------- *)

\* _fetch_options_chain, lines 1303-1324: one contract, its dte within bounds
CoveredCallRecord(symbol, price, strike, option, dte, metrics) ==
    IF option.bid <= 0 \/ option.ask <= 0 THEN <<>>
    ELSE IF metrics.pctCall.n < 0 \/ metrics.annPctCall.n < 0 THEN <<>>
    ELSE << [symbol |-> symbol, price |-> price,
             exp |-> option.expirationDate, dte |-> dte,
             strike |-> strike, bid |-> option.bid, ask |-> option.ask,
             mid |-> Mid(option.bid, option.ask), metrics |-> metrics] >>

\* _fetch_options_chain, lines 1299-1302: options[0] and the dte bounds
CoveredCallOption(symbol, price, p, strike, option, dte) ==
    IF dte < p.min_dte \/ dte > p.max_dte THEN <<>>
    ELSE CoveredCallRecord(symbol, price, strike, option, dte,
                           _calculate_metrics(price, strike, option.bid, option.ask, dte))

\* _fetch_options_chain, lines 1295-1299: one strike entry (an empty contract
\* list in range raises IndexError, see CoveredCallRaises)
CoveredCallEntry(symbol, price, p, strike, options) ==
    IF strike < BoundInt(price, p.min_strike_pct) \/ strike > BoundInt(price, p.max_strike_pct)
    THEN <<>>
    ELSE IF options = <<>> THEN <<>>
    ELSE CoveredCallOption(symbol, price, p, strike, options[1],
                           _calculate_dte(options[1].expirationDate))

\* options[0] on an empty list, for a strike within the bounds
CoveredCallRaises(price, call_map, p) ==
    \E e \in 1..Len(call_map) : \E i \in 1..Len(call_map[e].strikes) :
        /\ ~(\/ float(call_map[e].strikes[i].key) < BoundInt(price, p.min_strike_pct)
             \/ float(call_map[e].strikes[i].key) > BoundInt(price, p.max_strike_pct))
        /\ call_map[e].strikes[i].opts = <<>>

\* _fetch_options_chain, lines 1293-1325 (covered call)
_fetch_options_chain_eval(symbol, price, call_map, p) ==
    IF CoveredCallRaises(price, call_map, p) THEN [exc |-> "IndexError", records |-> <<>>]
    ELSE [exc |-> "none",
          records |-> ConcatMap(1, Len(call_map), LAMBDA e :
                        ConcatMap(1, Len(call_map[e].strikes), LAMBDA i :
                          CoveredCallEntry(symbol, price, p,
                                           float(call_map[e].strikes[i].key),
                                           call_map[e].strikes[i].opts)))]

(* ----------------------------- collar --------------------------------- *)

\* exp_key in exp_map
HasExp(exp_map, exp_key) == \E e \in 1..Len(exp_map) : exp_map[e].exp = exp_key

\* exp_map[exp_key] (the key is present)
GetExp(exp_map, exp_key) ==
    exp_map[CHOOSE e \in 1..Len(exp_map) : exp_map[e].exp = exp_key].strikes

\* the collar evaluator without its "collar <= 0" filter
CollarRecord_NoProfitFilter(symbol, price, strike, call_opt, put_opt, dte, metrics) ==
    << [symbol |-> symbol, price |-> price,
        exp |-> call_opt.expirationDate, dte |-> dte, strike |-> strike,
        callBid |-> call_opt.bid, callAsk |-> call_opt.ask,
        callMid |-> Mid(call_opt.bid, call_opt.ask),
        putBid |-> put_opt.bid, putAsk |-> put_opt.ask,
        putMid |-> Mid(put_opt.bid, put_opt.ask),
        netCost |-> metrics.netCost, collar |-> metrics.collar,
        annReturn |-> metrics.annReturn,
        strikePricePct |-> metrics.strikePricePct] >>

\* _fetch_stock_collar, lines 1136-1168: the profit filter and the record
CollarRecord(symbol, price, strike, call_opt, put_opt, dte, metrics) ==
    IF metrics.collar <= 0 THEN <<>>
    ELSE << [symbol |-> symbol, price |-> price,
             exp |-> call_opt.expirationDate, dte |-> dte, strike |-> strike,
             callBid |-> call_opt.bid, callAsk |-> call_opt.ask,
             callMid |-> Mid(call_opt.bid, call_opt.ask),
             putBid |-> put_opt.bid, putAsk |-> put_opt.ask,
             putMid |-> Mid(put_opt.bid, put_opt.ask),
             netCost |-> metrics.netCost, collar |-> metrics.collar,
             annReturn |-> metrics.annReturn,
             strikePricePct |-> metrics.strikePricePct] >>

\* _fetch_stock_collar, lines 1120-1134: dte bounds and quote validation
CollarPair(symbol, price, p, strike, call_opt, put_opt, dte) ==
    IF dte < p.min_dte \/ dte > p.max_dte THEN <<>>
    ELSE IF \/ call_opt.bid <= 0 \/ call_opt.ask <= 0 \/ put_opt.bid <= 0 \/ put_opt.ask <= 0
            \/ call_opt.ask < call_opt.bid \/ put_opt.ask < put_opt.bid THEN <<>>
    ELSE CollarRecord(symbol, price, strike, call_opt, put_opt, dte,
                      _calculate_collar_metrics(price, strike,
                                                Mid(call_opt.bid, call_opt.ask),
                                                Mid(put_opt.bid, put_opt.ask), dte))

\* _fetch_stock_collar, lines 1108-1118: one call strike entry against the puts
CollarEntry(symbol, price, p, put_strikes, strike_str, call_opts) ==
    IF ~HasKey(put_strikes, strike_str) THEN <<>>
    ELSE IF \/ float(strike_str) < BoundInt(price, p.min_strike_pct)
            \/ float(strike_str) > BoundInt(price, p.max_strike_pct) THEN <<>>
    ELSE IF call_opts = <<>> \/ GetOpts(put_strikes, strike_str) = <<>> THEN <<>>
    ELSE CollarPair(symbol, price, p, float(strike_str), call_opts[1],
                    GetOpts(put_strikes, strike_str)[1],
                    _calculate_dte(call_opts[1].expirationDate))

\* _fetch_stock_collar, lines 1103-1108: one call expiration
CollarExp(symbol, price, p, put_map, exp_key, call_strikes) ==
    IF ~HasExp(put_map, exp_key) THEN <<>>
    ELSE IF GetExp(put_map, exp_key) = <<>> THEN <<>>
    ELSE ConcatMap(1, Len(call_strikes), LAMBDA i :
           CollarEntry(symbol, price, p, GetExp(put_map, exp_key),
                       call_strikes[i].key, call_strikes[i].opts))

\* _fetch_stock_collar, lines 1071-1074 and 1098-1170
_fetch_stock_collar_eval(symbol, price, call_map, put_map, p) ==
    [exc |-> "none",
     records |-> ConcatMap(1, Len(call_map), LAMBDA e :
                   CollarExp(symbol, price, p, put_map, call_map[e].exp, call_map[e].strikes))]

(* --------------------------- call spread ------------------------------ *)

\* the record kept when the most it can gain is nothing
CallSpreadRecord_KeepsZeroGain(symbol, price, dte, upper_strike, lower_strike, upper_opt, lower_opt, upper_mid, lower_mid) ==
    IF lower_mid <= upper_mid THEN <<>>
    ELSE IF ((upper_strike - lower_strike) * 100) - ((lower_mid - upper_mid) * 100) < 0 THEN <<>>
    ELSE
    << [symbol |-> symbol, price |-> price,
        exp |-> upper_opt.expirationDate, dte |-> dte,
        lowerStrike |-> lower_strike, upperStrike |-> upper_strike,
        spreadWidth |-> upper_strike - lower_strike,
        lowerBid |-> lower_opt.bid, lowerAsk |-> lower_opt.ask, lowerMid |-> lower_mid,
        upperBid |-> upper_opt.bid, upperAsk |-> upper_opt.ask, upperMid |-> upper_mid,
        paid |-> (lower_mid - upper_mid) * 100,
        maxGain |-> ((upper_strike - lower_strike) * 100) - ((lower_mid - upper_mid) * 100),
        pctGain |-> FracTimes(Frac(((upper_strike - lower_strike) * 100)
                                   - ((lower_mid - upper_mid) * 100),
                                   (lower_mid - upper_mid) * 100), 100),
        annPctGain |-> Annualize(FracTimes(Frac(((upper_strike - lower_strike) * 100)
                                                - ((lower_mid - upper_mid) * 100),
                                                (lower_mid - upper_mid) * 100), 100), dte)] >>

\* _fetch_stock_call_spread, lines 333-379: metrics, filters and the record
CallSpreadRecord(symbol, price, dte, upper_strike, lower_strike, upper_opt, lower_opt, upper_mid, lower_mid) ==
    IF lower_mid <= upper_mid THEN <<>>
    ELSE IF ((upper_strike - lower_strike) * 100) - ((lower_mid - upper_mid) * 100) <= 0 THEN <<>>
    ELSE
    LET paid == (lower_mid - upper_mid) * 100
        max_gain == ((upper_strike - lower_strike) * 100) - ((lower_mid - upper_mid) * 100)
        pct_gain == IF (lower_mid - upper_mid) * 100 > 0
                    THEN FracTimes(Frac(((upper_strike - lower_strike) * 100)
                                        - ((lower_mid - upper_mid) * 100),
                                        (lower_mid - upper_mid) * 100), 100)
                    ELSE FracZero
    IN  << [symbol |-> symbol, price |-> price,
            exp |-> upper_opt.expirationDate, dte |-> dte,
            lowerStrike |-> lower_strike, upperStrike |-> upper_strike,
            spreadWidth |-> upper_strike - lower_strike,
            lowerBid |-> lower_opt.bid, lowerAsk |-> lower_opt.ask, lowerMid |-> lower_mid,
            upperBid |-> upper_opt.bid, upperAsk |-> upper_opt.ask, upperMid |-> upper_mid,
            paid |-> paid, maxGain |-> max_gain,
            pctGain |-> pct_gain, annPctGain |-> Annualize(pct_gain, dte)] >>

\* _fetch_stock_call_spread, lines 327-333: the lower leg's quote
CallSpreadPair(symbol, price, dte, upper_strike, lower_strike, upper_opt, lower_opt) ==
    IF lower_opt.bid <= 0 \/ lower_opt.ask <= 0 \/ lower_opt.ask < lower_opt.bid THEN <<>>
    ELSE CallSpreadRecord(symbol, price, dte, upper_strike, lower_strike, upper_opt, lower_opt,
                          Mid(upper_opt.bid, upper_opt.ask), Mid(lower_opt.bid, lower_opt.ask))

\* the lower-strike loop without its "spread_width > max_spread" test
CallSpreadLower_NoWidthFilter(symbol, price, p, strike_map, dte, upper_strike, upper_opt, lower_strike, lower_strike_str) ==
    IF lower_strike_str = None THEN <<>>
    ELSE IF GetOpts(strike_map, lower_strike_str) = <<>> THEN <<>>
    ELSE CallSpreadPair(symbol, price, dte, upper_strike, lower_strike, upper_opt,
                        GetOpts(strike_map, lower_strike_str)[1])

\* _fetch_stock_call_spread, lines 308-327: one lower strike under an upper leg
CallSpreadLower(symbol, price, p, strike_map, dte, upper_strike, upper_opt, lower_strike, lower_strike_str) ==
    IF upper_strike - lower_strike > p.max_spread * 100 THEN <<>>
    ELSE IF lower_strike_str = None THEN <<>>
    ELSE IF GetOpts(strike_map, lower_strike_str) = <<>> THEN <<>>
    ELSE CallSpreadPair(symbol, price, dte, upper_strike, lower_strike, upper_opt,
                        GetOpts(strike_map, lower_strike_str)[1])

\* _fetch_stock_call_spread, lines 295-308: the upper leg's contract
CallSpreadUpperOpt(symbol, price, p, strike_map, valid_strikes, i, upper_opt, dte) ==
    IF dte < p.min_dte \/ dte > p.max_dte THEN <<>>
    ELSE IF upper_opt.bid <= 0 \/ upper_opt.ask <= 0 \/ upper_opt.ask < upper_opt.bid THEN <<>>
    ELSE ConcatMap(i + 1, Len(valid_strikes), LAMBDA j :
           CallSpreadLower(symbol, price, p, strike_map, dte, valid_strikes[i], upper_opt,
                           valid_strikes[j], _find_strike_key(strike_map, valid_strikes[j])))

\* _fetch_stock_call_spread, lines 280-295: one upper strike
CallSpreadUpper(symbol, price, p, strike_map, valid_strikes, i, upper_strike_str) ==
    IF upper_strike_str = None THEN <<>>
    ELSE IF GetOpts(strike_map, upper_strike_str) = <<>> THEN <<>>
    ELSE CallSpreadUpperOpt(symbol, price, p, strike_map, valid_strikes, i,
                            GetOpts(strike_map, upper_strike_str)[1],
                            _calculate_dte(GetOpts(strike_map, upper_strike_str)[1].expirationDate))

\* _fetch_stock_call_spread, lines 268-280: one expiration
CallSpreadExp(symbol, price, p, strike_map, valid_strikes) ==
    IF Len(valid_strikes) < 2 THEN <<>>
    ELSE ConcatMap(1, Len(valid_strikes), LAMBDA i :
           CallSpreadUpper(symbol, price, p, strike_map, valid_strikes, i,
                           _find_strike_key(strike_map, valid_strikes[i])))

\* _fetch_stock_call_spread, lines 236-239 and 264-381
_fetch_stock_call_spread_eval(symbol, price, call_map, p) ==
    [exc |-> "none",
     records |-> ConcatMap(1, Len(call_map), LAMBDA e :
                   CallSpreadExp(symbol, price, p, call_map[e].strikes,
                                 ValidStrikes(SortDesc(StrikesOf(call_map[e].strikes)),
                                              Bound100(price, p.min_strike_pct),
                                              Bound100(price, p.max_strike_pct))))]

(* ---------------------------- put spread ------------------------------ *)

\* _fetch_stock_put_spread, lines 559-608: metrics, filters and the record
PutSpreadRecord(symbol, price, dte, lower_strike, higher_strike, lower_opt, higher_opt, lower_mid, higher_mid) ==
    IF higher_mid <= lower_mid THEN <<>>
    ELSE IF (higher_mid - lower_mid) * 100 <= 0 THEN <<>>
    ELSE
    LET credit_received == (higher_mid - lower_mid) * 100
        max_risk == ((higher_strike - lower_strike) * 100) - ((higher_mid - lower_mid) * 100)
        pct_gain == IF ((higher_strike - lower_strike) * 100) - ((higher_mid - lower_mid) * 100) > 0
                    THEN FracTimes(Frac((higher_mid - lower_mid) * 100,
                                        ((higher_strike - lower_strike) * 100)
                                        - ((higher_mid - lower_mid) * 100)), 100)
                    ELSE FracZero
    IN  << [symbol |-> symbol, price |-> price,
            exp |-> lower_opt.expirationDate, dte |-> dte,
            lowerStrike |-> lower_strike, higherStrike |-> higher_strike,
            spreadWidth |-> higher_strike - lower_strike,
            lowerBid |-> lower_opt.bid, lowerAsk |-> lower_opt.ask, lowerMid |-> lower_mid,
            higherBid |-> higher_opt.bid, higherAsk |-> higher_opt.ask,
            higherMid |-> higher_mid,
            creditReceived |-> credit_received, maxRisk |-> max_risk,
            maxGain |-> credit_received,
            pctGain |-> pct_gain, annPctGain |-> Annualize(pct_gain, dte)] >>

\* _fetch_stock_put_spread, lines 553-559: the higher leg's quote
PutSpreadPair(symbol, price, dte, lower_strike, higher_strike, lower_opt, higher_opt) ==
    IF higher_opt.bid <= 0 \/ higher_opt.ask <= 0 \/ higher_opt.ask < higher_opt.bid THEN <<>>
    ELSE PutSpreadRecord(symbol, price, dte, lower_strike, higher_strike, lower_opt, higher_opt,
                         Mid(lower_opt.bid, lower_opt.ask), Mid(higher_opt.bid, higher_opt.ask))

\* _fetch_stock_put_spread, lines 534-553: one higher strike over a lower leg
PutSpreadHigher(symbol, price, p, strike_map, dte, lower_strike, lower_opt, higher_strike, higher_strike_str) ==
    IF higher_strike - lower_strike > p.max_spread * 100 THEN <<>>
    ELSE IF higher_strike_str = None THEN <<>>
    ELSE IF GetOpts(strike_map, higher_strike_str) = <<>> THEN <<>>
    ELSE PutSpreadPair(symbol, price, dte, lower_strike, higher_strike, lower_opt,
                       GetOpts(strike_map, higher_strike_str)[1])

\* _fetch_stock_put_spread, lines 521-534: the lower leg's contract
PutSpreadLowerOpt(symbol, price, p, strike_map, valid_strikes, i, lower_opt, dte) ==
    IF dte < p.min_dte \/ dte > p.max_dte THEN <<>>
    ELSE IF lower_opt.bid <= 0 \/ lower_opt.ask <= 0 \/ lower_opt.ask < lower_opt.bid THEN <<>>
    ELSE ConcatMap(i + 1, Len(valid_strikes), LAMBDA j :
           PutSpreadHigher(symbol, price, p, strike_map, dte, valid_strikes[i], lower_opt,
                           valid_strikes[j], _find_strike_key(strike_map, valid_strikes[j])))

\* _fetch_stock_put_spread, lines 506-521: one lower strike
PutSpreadLower(symbol, price, p, strike_map, valid_strikes, i, lower_strike_str) ==
    IF lower_strike_str = None THEN <<>>
    ELSE IF GetOpts(strike_map, lower_strike_str) = <<>> THEN <<>>
    ELSE PutSpreadLowerOpt(symbol, price, p, strike_map, valid_strikes, i,
                           GetOpts(strike_map, lower_strike_str)[1],
                           _calculate_dte(GetOpts(strike_map, lower_strike_str)[1].expirationDate))

\* _fetch_stock_put_spread, lines 494-506: one expiration
PutSpreadExp(symbol, price, p, strike_map, valid_strikes) ==
    IF Len(valid_strikes) < 2 THEN <<>>
    ELSE ConcatMap(1, Len(valid_strikes), LAMBDA i :
           PutSpreadLower(symbol, price, p, strike_map, valid_strikes, i,
                          _find_strike_key(strike_map, valid_strikes[i])))

\* _fetch_stock_put_spread, lines 462-465 and 490-610
_fetch_stock_put_spread_eval(symbol, price, put_map, p) ==
    [exc |-> "none",
     records |-> ConcatMap(1, Len(put_map), LAMBDA e :
                   PutSpreadExp(symbol, price, p, put_map[e].strikes,
                                ValidStrikes(SortAsc(StrikesOf(put_map[e].strikes)),
                                             Bound100(price, p.min_strike_pct),
                                             Bound100(price, p.max_strike_pct))))]

(* ---------------------------- iron condor ----------------------------- *)

\* _fetch_stock_iron_condor, lines 862-883 (side = "put") and 918-939
\* (side = "call"): the higher leg's quote, the credit test, the candidate.
\* The two loops differ only in the "no credit available" test.
CondorSpread(side, dte, lower, higher, lower_opt, higher_opt) ==
    IF higher_opt.bid <= 0 \/ higher_opt.ask <= 0 THEN <<>>
    ELSE IF side = "put" /\ higher_opt.bid <= lower_opt.ask THEN <<>>
    ELSE IF side = "call" /\ lower_opt.bid <= higher_opt.ask THEN <<>>
    ELSE << [lowerStrike |-> lower, higherStrike |-> higher,
             spreadWidth |-> higher - lower,
             lowerBid |-> lower_opt.bid, lowerAsk |-> lower_opt.ask,
             higherBid |-> higher_opt.bid, higherAsk |-> higher_opt.ask,
             dte |-> dte, expDate |-> lower_opt.expirationDate] >>

\* lines 850-862 and 906-918: one higher strike over a lower leg
CondorHigher(side, p, strike_map, dte, lower, lower_opt, higher, higher_str) ==
    IF higher - lower > p.max_spread * 100 THEN <<>>
    ELSE IF higher_str = None THEN <<>>
    ELSE IF GetOpts(strike_map, higher_str) = <<>> THEN <<>>
    ELSE CondorSpread(side, dte, lower, higher, lower_opt, GetOpts(strike_map, higher_str)[1])

\* lines 839-850 and 895-906: the lower leg's contract
CondorLowerOpt(side, p, strike_map, valid_strikes, i, lower_opt, dte) ==
    IF dte < p.min_dte \/ dte > p.max_dte THEN <<>>
    ELSE IF lower_opt.bid <= 0 \/ lower_opt.ask <= 0 THEN <<>>
    ELSE ConcatMap(i + 1, Len(valid_strikes), LAMBDA j :
           CondorHigher(side, p, strike_map, dte, valid_strikes[i], lower_opt,
                        valid_strikes[j], _find_strike_key(strike_map, valid_strikes[j])))

\* lines 831-839 and 887-895: one lower strike
CondorLower(side, p, strike_map, valid_strikes, i, lower_str) ==
    IF lower_str = None THEN <<>>
    ELSE IF GetOpts(strike_map, lower_str) = <<>> THEN <<>>
    ELSE CondorLowerOpt(side, p, strike_map, valid_strikes, i,
                        GetOpts(strike_map, lower_str)[1],
                        _calculate_dte(GetOpts(strike_map, lower_str)[1].expirationDate))

\* lines 829-883 and 885-939: put_spreads / call_spreads of one expiration
IronCondorSpreads(side, p, strike_map, valid_strikes) ==
    ConcatMap(1, Len(valid_strikes), LAMBDA i :
      CondorLower(side, p, strike_map, valid_strikes, i,
                  _find_strike_key(strike_map, valid_strikes[i])))

\* _fetch_stock_iron_condor, lines 964-1020: filters and the record
CondorRecord(symbol, price, put_spread, call_spread, put_lower_mid, put_higher_mid, call_lower_mid, call_higher_mid, total_credit, max_risk) ==
    IF total_credit <= 0 THEN <<>>
    ELSE IF max_risk <= 0 THEN <<>>
    ELSE << [symbol |-> symbol, price |-> price,
             exp |-> put_spread.expDate, dte |-> put_spread.dte,
             spreadWidth |-> put_spread.spreadWidth,
             putLowerStrike |-> put_spread.lowerStrike,
             putHigherStrike |-> put_spread.higherStrike,
             putLowerBid |-> put_spread.lowerBid, putLowerAsk |-> put_spread.lowerAsk,
             putLowerMid |-> put_lower_mid,
             putHigherBid |-> put_spread.higherBid, putHigherAsk |-> put_spread.higherAsk,
             putHigherMid |-> put_higher_mid,
             putCredit |-> (put_higher_mid - put_lower_mid) * 100,
             callLowerStrike |-> call_spread.lowerStrike,
             callHigherStrike |-> call_spread.higherStrike,
             callLowerBid |-> call_spread.lowerBid, callLowerAsk |-> call_spread.lowerAsk,
             callLowerMid |-> call_lower_mid,
             callHigherBid |-> call_spread.higherBid, callHigherAsk |-> call_spread.higherAsk,
             callHigherMid |-> call_higher_mid,
             callCredit |-> (call_lower_mid - call_higher_mid) * 100,
             totalCredit |-> total_credit, maxRisk |-> max_risk,
             pctGain |-> FracTimes(Frac(total_credit, max_risk), 100),
             annPctGain |-> Annualize(FracTimes(Frac(total_credit, max_risk), 100),
                                      put_spread.dte)] >>

\* lines 950-970: mid prices, credits, risk of one put spread / call spread pair
CondorMetrics(symbol, price, put_spread, call_spread, put_lower_mid, put_higher_mid, call_lower_mid, call_higher_mid) ==
    CondorRecord(symbol, price, put_spread, call_spread, put_lower_mid, put_higher_mid,
                 call_lower_mid, call_higher_mid,
                 (put_higher_mid - put_lower_mid) * 100 + (call_lower_mid - call_higher_mid) * 100,
                 (put_spread.spreadWidth * 100)
                 - ((put_higher_mid - put_lower_mid) * 100
                    + (call_lower_mid - call_higher_mid) * 100))

\* the pairing without the test for equal widths
CondorPair_AnyWidth(symbol, price, put_spread, call_spread) ==
    IF put_spread.dte # call_spread.dte THEN <<>>
    ELSE CondorMetrics(symbol, price, put_spread, call_spread,
                       Mid(put_spread.lowerBid, put_spread.lowerAsk),
                       Mid(put_spread.higherBid, put_spread.higherAsk),
                       Mid(call_spread.lowerBid, call_spread.lowerAsk),
                       Mid(call_spread.higherBid, call_spread.higherAsk))

\* lines 942-957: the matching test of one put spread / call spread pair
CondorPair(symbol, price, put_spread, call_spread) ==
    IF put_spread.spreadWidth # call_spread.spreadWidth THEN <<>>
    ELSE IF put_spread.dte # call_spread.dte THEN <<>>
    ELSE CondorMetrics(symbol, price, put_spread, call_spread,
                       Mid(put_spread.lowerBid, put_spread.lowerAsk),
                       Mid(put_spread.higherBid, put_spread.higherAsk),
                       Mid(call_spread.lowerBid, call_spread.lowerAsk),
                       Mid(call_spread.higherBid, call_spread.higherAsk))

\* lines 941-1020: every put spread with every call spread
CondorCombine(symbol, price, put_spreads, call_spreads) ==
    ConcatMap(1, Len(put_spreads), LAMBDA a :
      ConcatMap(1, Len(call_spreads), LAMBDA b :
        CondorPair(symbol, price, put_spreads[a], call_spreads[b])))

\* lines 816-941: one expiration, given the in-range strikes of both sides
CondorExpStrikes(symbol, price, p, put_strike_map, call_strike_map, valid_put_strikes, valid_call_strikes) ==
    IF Len(valid_put_strikes) < 2 \/ Len(valid_call_strikes) < 2 THEN <<>>
    ELSE CondorCombine(symbol, price,
                       IronCondorSpreads("put", p, put_strike_map, valid_put_strikes),
                       IronCondorSpreads("call", p, call_strike_map, valid_call_strikes))

\* lines 771-779 and 809-824: one put expiration; the call window mirrors the
\* put window around the price (bounds times 100)
CondorExp(symbol, price, p, call_map, exp_key, put_strike_map) ==
    IF ~HasExp(call_map, exp_key) THEN <<>>
    ELSE CondorExpStrikes(symbol, price, p, put_strike_map, GetExp(call_map, exp_key),
                          ValidStrikes(SortAsc(StrikesOf(put_strike_map)),
                                       Bound100(price, p.min_strike_pct),
                                       Bound100(price, p.max_strike_pct)),
                          ValidStrikes(SortAsc(StrikesOf(GetExp(call_map, exp_key))),
                                       price * (200 - p.max_strike_pct),
                                       price * (200 - p.min_strike_pct)))

\* _fetch_stock_iron_condor, lines 771-779 and 804-1022
_fetch_stock_iron_condor_eval(symbol, price, put_map, call_map, p) ==
    [exc |-> "none",
     records |-> ConcatMap(1, Len(put_map), LAMBDA e :
                   CondorExp(symbol, price, p, call_map, put_map[e].exp, put_map[e].strikes))]

(***************************************************************************)
(* Request payloads (app.py).  A JSON value is tagged with its type; a     *)
(* JSON object is a record, an absent key is an absent field.              *)
(***************************************************************************)

\* JSON values: integer, fractional number n/d, string, null
JInt(v) == [t |-> "int", v |-> v]
JFloat(n, d) == [t |-> "float", n |-> n, d |-> d]
JStr(s) == [t |-> "str", s |-> s]
JNull == [t |-> "null"]

\* the strings Python's int() parses, with their values (any other string
\* of the model, such as "abc" or "5.7", raises ValueError)
IntLiterals == ("90" :> 90) @@ ("30" :> 30)

\* int(x) for a JSON value: [ok, v]; not ok is TypeError or ValueError
PyInt(x) ==
    CASE x.t = "int" -> [ok |-> TRUE, v |-> x.v]
      [] x.t = "float" -> [ok |-> TRUE, v |-> IntTrunc(x.n, x.d)]
      [] x.t = "str" -> IF x.s \in DOMAIN IntLiterals
                        THEN [ok |-> TRUE, v |-> IntLiterals[x.s]]
                        ELSE [ok |-> FALSE, v |-> 0]
      [] OTHER -> [ok |-> FALSE, v |-> 0]

\* s.upper() over the symbols of the model
Upper(s) == CASE s = "a" -> "A" [] s = "b" -> "B" [] OTHER -> s

\* s.strip() is non-empty
NonBlank(s) == s \notin {"", " "}

\* [s.upper() for s in data["symbols"] if isinstance(s, str) and s.strip()]
ParseSymbols(symbols) ==
    LET kept == SelectSeq(symbols, LAMBDA x : x.t = "str" /\ NonBlank(x.s))
    IN  [i \in 1..Len(kept) |-> Upper(kept[i].s)]

\* _parse_payload, lines 100-108: the optional maxSpread
ParseMaxSpread(data, result, max_spread) ==
    IF ~max_spread.ok THEN [exc |-> "ValueError", payload |-> result]
    ELSE IF max_spread.v < 1 \/ max_spread.v > 30 THEN [exc |-> "ValueError", payload |-> result]
    ELSE [exc |-> "none", payload |-> result @@ [max_spread |-> max_spread.v]]

\* _parse_payload, lines 83-110: the four integers, then maxSpread if present
ParseIntegers(data, symbols, min_strike_pct, max_strike_pct, min_dte, max_dte) ==
    IF ~(min_strike_pct.ok /\ max_strike_pct.ok /\ min_dte.ok /\ max_dte.ok)
    THEN [exc |-> "ValueError", payload |-> [symbols |-> symbols]]
    ELSE IF "maxSpread" \in DOMAIN data
    THEN ParseMaxSpread(data,
                        [symbols |-> symbols,
                         min_strike_pct |-> min_strike_pct.v, max_strike_pct |-> max_strike_pct.v,
                         min_dte |-> min_dte.v, max_dte |-> max_dte.v],
                        PyInt(data.maxSpread))
    ELSE [exc |-> "none",
          payload |-> [symbols |-> symbols,
                       min_strike_pct |-> min_strike_pct.v, max_strike_pct |-> max_strike_pct.v,
                       min_dte |-> min_dte.v, max_dte |-> max_dte.v]]

\* _parse_payload: [exc, payload], exc = "ValueError" when it raises
_parse_payload(data) ==
    IF ~({"symbols", "minStrikePct", "maxStrikePct", "minDte", "maxDte"} \subseteq DOMAIN data)
    THEN [exc |-> "ValueError", payload |-> <<>>]
    ELSE IF ParseSymbols(data.symbols) = <<>>
    THEN [exc |-> "ValueError", payload |-> <<>>]
    ELSE ParseIntegers(data, ParseSymbols(data.symbols),
                       PyInt(data.minStrikePct), PyInt(data.maxStrikePct),
                       PyInt(data.minDte), PyInt(data.maxDte))

(***************************************************************************)
(* The provider.  What the provider answers while one symbol is being      *)
(* processed is a feed [token, quote, chain]: token is the answer of the   *)
(* token endpoint (status and, on rotation, a new refresh token; "" is no  *)
(* rotation), quote is [status, shape, price] (shape "ok", "no_symbol":    *)
(* the JSON lacks the symbol key, "no_quote": the symbol's entry lacks     *)
(* "quote"; price is lastPrice-or-mark, 0 when both are missing or zero),  *)
(* chain is [status, callExpDateMap, putExpDateMap].                       *)
(* api is the SchwabAPI instance [_access_token, _token_expiry,            *)
(* _refresh_token] ("" and 0 stand for None) together with the requests    *)
(* sent so far, wire.                                                      *)
(***************************************************************************)

\* int(payload.get("expires_in", 1800)): the provider's token lifetime, seconds
ExpiresIn == 1800

\* timedelta(seconds=60): the safety margin of _valid_access_token
ExpiryMargin == 60

\* _refresh_access_token: POST to the token endpoint
_refresh_access_token(api, now, symbol, token) ==
    IF token.status # 200
    THEN [exc |-> "SchwabAPIError",
          api |-> [api EXCEPT !.wire = Append(@, [kind |-> "token", symbol |-> symbol,
                                                  sent |-> api._refresh_token,
                                                  status |-> token.status])]]
    ELSE [exc |-> "none",
          api |-> [api EXCEPT !.wire = Append(@, [kind |-> "token", symbol |-> symbol,
                                                  sent |-> api._refresh_token,
                                                  status |-> token.status]),
                              !._access_token = "access",
                              !._token_expiry = now + ExpiresIn,
                              !._refresh_token = IF token.refresh_token # ""
                                                 THEN token.refresh_token ELSE @]]

\* _valid_access_token without the safety margin
_valid_access_token_NoMargin(api, now, symbol, token) ==
    IF api._access_token # "" /\ api._token_expiry # 0
       /\ now < api._token_expiry
    THEN [exc |-> "none", api |-> api]
    ELSE _refresh_access_token(api, now, symbol, token)

\* _valid_access_token (called by _auth_headers before every request)
_valid_access_token(api, now, symbol, token) ==
    IF api._access_token # "" /\ api._token_expiry # 0
       /\ now < api._token_expiry - ExpiryMargin
    THEN [exc |-> "none", api |-> api]
    ELSE _refresh_access_token(api, now, symbol, token)

\* a request on the wire: the quote POST or the chain GET
Sent(api, kind, symbol, status) ==
    [api EXCEPT !.wire = Append(@, [kind |-> kind, symbol |-> symbol,
                                    sent |-> "", status |-> status])]

\* the exception the quote checks raise ("none": a usable price).  The
\* covered call indexes quote_data[symbol]["quote"] unguarded and tests only
\* "not price"; the other four test the keys and "not price or price <= 0".
QuoteCheck(kind, quote) ==
    IF quote.status # 200 THEN "SchwabAPIError"
    ELSE IF quote.shape # "ok"
         THEN (IF kind = "covered_call" THEN "KeyError" ELSE "SchwabAPIError")
    ELSE IF quote.price = 0 THEN "SchwabAPIError"
    ELSE IF kind # "covered_call" /\ quote.price <= 0 THEN "SchwabAPIError"
    ELSE "none"

\* the result of one symbol's fetch: (records, api_calls) or an exception
Raised(exc, api) == [exc |-> exc, records |-> <<>>, api_calls |-> 0, api |-> api]
Returned(ev, api_calls, api) ==
    [exc |-> ev.exc, records |-> ev.records, api_calls |-> api_calls, api |-> api]

\* the chain GET, its status check and the evaluation; hdr is the outcome of
\* _auth_headers for this request, evaluation what the helper's loops over
\* the chain give (only computed when they are reached)
FetchChain(hdr, symbol, feed, evaluation) ==
    IF hdr.exc # "none" THEN Raised(hdr.exc, hdr.api)
    ELSE IF feed.chain.status # 200
    THEN Raised("SchwabAPIError", Sent(hdr.api, "chain", symbol, feed.chain.status))
    ELSE Bind(evaluation,
              LAMBDA ev : Returned(ev, 2, Sent(hdr.api, "chain", symbol, feed.chain.status)))

\* the quote POST and its checks, then the chain; hdr is the outcome of
\* _auth_headers for the quote request
FetchQuote(kind, hdr, now, symbol, feed, evaluation) ==
    IF hdr.exc # "none" THEN Raised(hdr.exc, hdr.api)
    ELSE IF QuoteCheck(kind, feed.quote) # "none"
    THEN Raised(QuoteCheck(kind, feed.quote), Sent(hdr.api, "quote", symbol, feed.quote.status))
    ELSE Bind(_valid_access_token(Sent(hdr.api, "quote", symbol, feed.quote.status),
                                  now, symbol, feed.token),
              LAMBDA chain_hdr : FetchChain(chain_hdr, symbol, feed, evaluation))

\* the five per-symbol helpers: quote, chain, evaluation
_fetch_options_chain(api, now, symbol, feed, p) ==
    Bind(_valid_access_token(api, now, symbol, feed.token),
         LAMBDA hdr : FetchQuote("covered_call", hdr, now, symbol, feed,
                                 _fetch_options_chain_eval(symbol, feed.quote.price,
                                                           feed.chain.callExpDateMap, p)))
_fetch_stock_collar(api, now, symbol, feed, p) ==
    Bind(_valid_access_token(api, now, symbol, feed.token),
         LAMBDA hdr : FetchQuote("collar", hdr, now, symbol, feed,
                                 _fetch_stock_collar_eval(symbol, feed.quote.price,
                                                          feed.chain.callExpDateMap,
                                                          feed.chain.putExpDateMap, p)))
_fetch_stock_call_spread(api, now, symbol, feed, p) ==
    Bind(_valid_access_token(api, now, symbol, feed.token),
         LAMBDA hdr : FetchQuote("call_spread", hdr, now, symbol, feed,
                                 _fetch_stock_call_spread_eval(symbol, feed.quote.price,
                                                               feed.chain.callExpDateMap, p)))
_fetch_stock_put_spread(api, now, symbol, feed, p) ==
    Bind(_valid_access_token(api, now, symbol, feed.token),
         LAMBDA hdr : FetchQuote("put_spread", hdr, now, symbol, feed,
                                 _fetch_stock_put_spread_eval(symbol, feed.quote.price,
                                                              feed.chain.putExpDateMap, p)))
_fetch_stock_iron_condor(api, now, symbol, feed, p) ==
    Bind(_valid_access_token(api, now, symbol, feed.token),
         LAMBDA hdr : FetchQuote("iron_condor", hdr, now, symbol, feed,
                                 _fetch_stock_iron_condor_eval(symbol, feed.quote.price,
                                                               feed.chain.putExpDateMap,
                                                               feed.chain.callExpDateMap, p)))

(***************************************************************************)
(* The fetch_*_data entry points (schwab_api.py)                           *)
(***************************************************************************)

\* rec["strategyType"] = tag, for every record
Tagged(records, tag) == [i \in 1..Len(records) |-> records[i] @@ [strategyType |-> tag]]

\* a descending sort that puts a record before the records it ties with
SortByAnnPctGain_Unstable(records) ==
    LET ins(sorted, x) ==
            LET k == Cardinality({i \in 1..Len(sorted) :
                                     FracLess(x.annPctGain, sorted[i].annPctGain)})
            IN  SubSeq(sorted, 1, k) \o <<x>> \o SubSeq(sorted, k + 1, Len(sorted))
        acc[i \in 0..Len(records)] == IF i = 0 THEN <<>> ELSE ins(acc[i - 1], records[i])
    IN  acc[Len(records)]

\* records.sort(key=lambda x: x.get("annPctGain", 0), reverse=True): stable
SortByAnnPctGain(records) ==
    LET ins(sorted, x) ==
            LET k == Cardinality({i \in 1..Len(sorted) :
                                     ~FracLess(sorted[i].annPctGain, x.annPctGain)})
            IN  SubSeq(sorted, 1, k) \o <<x>> \o SubSeq(sorted, k + 1, Len(sorted))
        acc[i \in 0..Len(records)] == IF i = 0 THEN <<>> ELSE ins(acc[i - 1], records[i])
    IN  acc[Len(records)]

\* the join tagging the put spreads as call spreads
PutCallJoin_PutsUntagged(c, q) ==
    IF q.exc # "none" THEN Raised(q.exc, q.api)
    ELSE [exc |-> "none",
          records |-> Tagged(c.records, "call_spread") \o Tagged(q.records, "call_spread"),
          api_calls |-> c.api_calls + q.api_calls, api |-> q.api]

\* fetch_put_call_spread_data, lines 655-668: the put spread of one symbol,
\* after its call spread c returned
PutCallJoin(c, q) ==
    IF q.exc # "none" THEN Raised(q.exc, q.api)
    ELSE [exc |-> "none",
          records |-> Tagged(c.records, "call_spread") \o Tagged(q.records, "put_spread"),
          api_calls |-> c.api_calls + q.api_calls, api |-> q.api]

\* what the provider answers once it has answered a first quote request for
\* the symbol: its later quote, where it has one
Later(feed) == IF "later" \in DOMAIN feed THEN [feed EXCEPT !.quote = feed.later] ELSE feed

\* fetch_put_call_spread_data, lines 637-655: the call spread of one symbol;
\* the put spread helper then asks for the quote again
PutCallNext(c, now, symbol, feed, p) ==
    IF c.exc # "none" THEN c
    ELSE Bind(_fetch_stock_put_spread(c.api, now, symbol, Later(feed), p),
              LAMBDA q : PutCallJoin(c, q))

\* the body of fetch_put_call_spread_data's loop: both helpers for one symbol
FetchPutCall(api, now, symbol, feed, p) ==
    Bind(_fetch_stock_call_spread(api, now, symbol, feed, p),
         LAMBDA c : PutCallNext(c, now, symbol, feed, p))

\* "except SchwabAPIError: raise / except Exception: raise SchwabAPIError";
\* fetch_options_data has no try (wraps = FALSE): what is raised escapes as it is
Reraise(wraps, exc) == IF wraps THEN "SchwabAPIError" ELSE exc

\* the loop body as the claim has it: a failed symbol is skipped
LoopBody_SkipsFailed(wraps, acc, r) ==
    IF r.exc # "none" THEN [acc EXCEPT !.api = r.api]
    ELSE [exc |-> "none", records |-> acc.records \o r.records,
          api_calls |-> acc.api_calls + r.api_calls, api |-> r.api]

\* the loop body: records.extend(recs); api_calls += calls, or the exception
LoopBody(wraps, acc, r) ==
    IF r.exc # "none" THEN Raised(Reraise(wraps, r.exc), r.api)
    ELSE [exc |-> "none", records |-> acc.records \o r.records,
          api_calls |-> acc.api_calls + r.api_calls, api |-> r.api]

\* "for sym in symbols: ..." of every fetch_*_data, an exception ending it;
\* Helper(api, i) is the per-symbol helper applied to symbols[i]
FetchLoop(wraps, api, symbols, Helper(_, _)) ==
    LET acc[i \in 0..Len(symbols)] ==
            IF i = 0 THEN [exc |-> "none", records |-> <<>>, api_calls |-> 0, api |-> api]
            ELSE Bind(acc[i - 1],
                      LAMBDA prev : IF prev.exc # "none" THEN prev
                                    ELSE Bind(Helper(prev.api, i),
                                              LAMBDA r : LoopBody(wraps, prev, r)))
    IN  acc[Len(symbols)]

\* the trailing sort of fetch_put_call_spread_data and fetch_iron_condor_data
Sorted(r) == IF r.exc # "none" THEN r ELSE [r EXCEPT !.records = SortByAnnPctGain(@)]

\* the entry points; feeds[i] is what the provider answers while symbols[i]
\* is processed
fetch_options_data(api, now, symbols, feeds, p) ==
    FetchLoop(FALSE, api, symbols,
              LAMBDA a, i : _fetch_options_chain(a, now, symbols[i], feeds[i], p))
fetch_collar_data(api, now, symbols, feeds, p) ==
    FetchLoop(TRUE, api, symbols,
              LAMBDA a, i : _fetch_stock_collar(a, now, symbols[i], feeds[i], p))
fetch_call_spread_data(api, now, symbols, feeds, p) ==
    FetchLoop(TRUE, api, symbols,
              LAMBDA a, i : _fetch_stock_call_spread(a, now, symbols[i], feeds[i], p))
fetch_put_spread_data(api, now, symbols, feeds, p) ==
    FetchLoop(TRUE, api, symbols,
              LAMBDA a, i : _fetch_stock_put_spread(a, now, symbols[i], feeds[i], p))
fetch_put_call_spread_data(api, now, symbols, feeds, p) ==
    Bind(FetchLoop(TRUE, api, symbols,
                   LAMBDA a, i : FetchPutCall(a, now, symbols[i], feeds[i], p)),
         LAMBDA r : Sorted(r))
fetch_iron_condor_data(api, now, symbols, feeds, p) ==
    Bind(FetchLoop(TRUE, api, symbols,
                   LAMBDA a, i : _fetch_stock_iron_condor(a, now, symbols[i], feeds[i], p)),
         LAMBDA r : Sorted(r))

(***************************************************************************)
(* The routes (app.py).  A handled request is [response, result, api]:     *)
(* the HTTP response, the outcome of the fetch_*_data call it made (or     *)
(* NotCalled) and the SchwabAPI instance afterwards.                       *)
(***************************************************************************)

\* no fetch_*_data call was made (or, in the batch run, one per stock)
NotCalled == [called |-> FALSE]

\* the outcome of a fetch_*_data call, as its caller sees it
Outcome(r) ==
    [called |-> TRUE, exc |-> r.exc,
     records |-> IF r.exc = "none" THEN r.records ELSE <<>>,
     api_calls |-> IF r.exc = "none" THEN r.api_calls ELSE 0]

\* the routes' "return jsonify(...)" and except clauses: ValueError is 400,
\* SchwabAPIError is 502, anything else is left to Flask, which answers 500
RouteResponse(r) ==
    CASE r.exc = "none" -> [status |-> 200, records |-> r.records, apiCalls |-> r.api_calls]
      [] r.exc = "ValueError" -> [status |-> 400, error |-> r.exc]
      [] r.exc = "SchwabAPIError" -> [status |-> 502, error |-> r.exc]
      [] OTHER -> [status |-> 500, error |-> r.exc]

\* the route's answer to the outcome r of its fetch_*_data call
RouteDone(r) == [response |-> RouteResponse(r), result |-> Outcome(r), api |-> r.api]

\* the route's answer when _parse_payload raised
Rejected(exc, api) ==
    [response |-> [status |-> 400, error |-> exc], result |-> NotCalled, api |-> api]

\* the route's answer when the call itself is a TypeError: the method is
\* never entered, the routes catch no TypeError, Flask answers 500
Mismatch(api) ==
    [response |-> [status |-> 500, error |-> "TypeError"], result |-> NotCalled, api |-> api]

\* fetch_*_data(**payload): the keyword arguments fit the signature, which
\* has max_spread or not; when they do not, the call is a TypeError
KeywordsFit(payload, has_max_spread) == ("max_spread" \in DOMAIN payload) = has_max_spread

\* obj.get(key, default)
Get(obj, key, default) == IF key \in DOMAIN obj THEN obj[key] ELSE default

\* [stock for stock in config["stocks"] if stock.get("enabled", True)]
EnabledStocks(config) == SelectSeq(config.stocks, LAMBDA stock : Get(stock, "enabled", TRUE))

\* batch run, lines 327-335: the keyword arguments of one stock
StockPayload(config, stock) ==
    [symbols |-> <<stock.symbol>>,
     min_strike_pct |-> Get(stock, "minStrikePct", config.defaultParams.minStrikePct),
     max_strike_pct |-> Get(stock, "maxStrikePct", config.defaultParams.maxStrikePct),
     min_dte |-> Get(stock, "minDte", config.defaultParams.minDte),
     max_dte |-> Get(stock, "maxDte", config.defaultParams.maxDte),
     max_spread |-> Get(stock, "maxSpread", config.defaultParams.maxSpread)]

\* batch run, lines 339-342: record["stockNotes"] = stock["notes"]
Noted(records, stock) ==
    IF Get(stock, "notes", "") = "" THEN records
    ELSE [i \in 1..Len(records) |-> records[i] @@ [stockNotes |-> stock.notes]]

\* the batch loop body counting the calls made for a failed stock as well
BatchBody_CountsFailed(acc, stock, r) ==
    IF r.exc # "none"
    THEN [acc EXCEPT !.failed = @ + 1,
                     !.errors = Append(@, [symbol |-> stock.symbol, error |-> r.exc]),
                     !.total_api_calls = @ + 1,
                     !.api = r.api]
    ELSE [acc EXCEPT !.all_records = @ \o Noted(r.records, stock),
                     !.total_api_calls = @ + r.api_calls,
                     !.successful = @ + 1,
                     !.api = r.api]

\* the batch loop body leaving a failed stock out of the error list
BatchBody_ErrorUnlisted(acc, stock, r) ==
    IF r.exc # "none"
    THEN [acc EXCEPT !.failed = @ + 1,
                     !.api = r.api]
    ELSE [acc EXCEPT !.all_records = @ \o Noted(r.records, stock),
                     !.total_api_calls = @ + r.api_calls,
                     !.successful = @ + 1,
                     !.api = r.api]

\* batch run, lines 337-352: one stock's outcome r added to the totals
BatchBody(acc, stock, r) ==
    IF r.exc # "none"
    THEN [acc EXCEPT !.failed = @ + 1,
                     !.errors = Append(@, [symbol |-> stock.symbol, error |-> r.exc]),
                     !.api = r.api]
    ELSE [acc EXCEPT !.all_records = @ \o Noted(r.records, stock),
                     !.total_api_calls = @ + r.api_calls,
                     !.successful = @ + 1,
                     !.api = r.api]

\* batch run, lines 325-352: one stock of "for stock in enabled_stocks"
BatchStep(config, acc, now, stock, feed) ==
    Bind(fetch_put_call_spread_data(acc.api, now, <<stock.symbol>>, <<feed>>,
                                    StockPayload(config, stock)),
         LAMBDA r : BatchBody(acc, stock, r))

\* batch run, lines 316-352: the loop over the enabled stocks
BatchLoop(config, api, now, enabled_stocks, feeds) ==
    LET acc[i \in 0..Len(enabled_stocks)] ==
            IF i = 0 THEN [all_records |-> <<>>, total_api_calls |-> 0,
                           successful |-> 0, failed |-> 0, errors |-> <<>>, api |-> api]
            ELSE Bind(acc[i - 1],
                      LAMBDA prev : BatchStep(config, prev, now, enabled_stocks[i], feeds[i]))
    IN  acc[Len(enabled_stocks)]

\* batch run, lines 354-361: the sort and the response
BatchResponse(enabled_stocks, acc) ==
    [response |-> [status |-> 200,
                   records |-> SortByAnnPctGain(acc.all_records),
                   apiCalls |-> acc.total_api_calls,
                   summary |-> [total_stocks |-> Len(enabled_stocks),
                                successful |-> acc.successful, failed |-> acc.failed,
                                errors |-> acc.errors]],
     result |-> NotCalled, api |-> acc.api]

\* the configuration file does not exist
NoFile == [absent |-> TRUE]

\* batch_run_put_call_spread
BatchRun(api, now, file, feeds) ==
    IF file = NoFile
    THEN [response |-> [status |-> 404, error |-> "No configuration file found"],
          result |-> NotCalled, api |-> api]
    ELSE IF EnabledStocks(file) = <<>>
    THEN [response |-> [status |-> 400, error |-> "No enabled stocks in configuration"],
          result |-> NotCalled, api |-> api]
    ELSE Bind(BatchLoop(file, api, now, EnabledStocks(file), feeds),
              LAMBDA acc : BatchResponse(EnabledStocks(file), acc))

(***************************************************************************)
(* Bounded market data for the evaluators                                  *)
(***************************************************************************)

\* most strike keys in one strike map
MaxStrikes == 2

\* a strike key "w.f"
K(w, f) == [w |-> w, f |-> f]

\* an option contract
Contract(e, bid, ask) == [expirationDate |-> e, bid |-> bid, ask |-> ask]

\* the increasing enumeration of a set of numbers
Ordered(S) == SortAsc(CHOOSE q \in [1..Cardinality(S) -> S] :
                          \A i, j \in 1..Cardinality(S) : i # j => q[i] # q[j])

\* the strike maps over at most MaxStrikes of the keys (a sequence, taken in
\* that order, or reversed when revs allows it), every contract expiring on
\* day e, with a quote <<bid, ask>> from quotes or an empty contract list
StrikeMaps(keys, quotes, e, revs) ==
    LET opts == {<<>>} \cup {<<Contract(e, q[1], q[2])>> : q \in quotes}
        subsets == {S \in SUBSET (1..Len(keys)) : Cardinality(S) <= MaxStrikes}
        build(S, f, rev) ==
            LET o == Ordered(S)
                n == Len(o)
            IN  [i \in 1..n |->
                    LET k == IF rev THEN o[n + 1 - i] ELSE o[i]
                    IN  [key |-> keys[k], opts |-> f[k]]]
    IN  UNION {{build(S, f, rev) : f \in [S -> opts], rev \in revs} : S \in subsets}

\* one-expiration (or empty) expiration maps
ExpMaps(exp_key, strike_maps) == {<<>>} \cup {<<[exp |-> exp_key, strikes |-> m]>> : m \in strike_maps}

\* the quoted price of the evaluations: 10.00
EvalPrice == 10 * 100

\* strike keys "9", "9.0", "9.5", "9.50", "10.0" and, above the price, "10.5", "11.0"
LowKeys == << K(9, <<>>), K(9, <<0>>), K(9, <<5>>), K(9, <<5, 0>>), K(10, <<0>>) >>
MidKeys == << K(9, <<0>>), K(9, <<5>>), K(10, <<0>>) >>
HighKeys == << K(10, <<0>>), K(10, <<5>>), K(11, <<0>>) >>

\* <<bid, ask>> in cents: tradable ones, ask < bid, bid = 0
Quotes == { <<100, 100>>, <<100, 120>>, <<200, 200>>, <<120, 100>>, <<0, 100>> }
FewQuotes == { <<100, 100>>, <<110, 110>>, <<120, 100>> }

\* expiration days of the contracts (today is day 0)
ExpDays == {0, 10}

\* request parameters: strike percentages, DTE bounds, max spread
Params(sp, d, max_spread) ==
    [min_strike_pct |-> sp[1], max_strike_pct |-> sp[2],
     min_dte |-> d[1], max_dte |-> d[2], max_spread |-> max_spread]

\* parameters of the one-sided evaluations (the last two pairs are out of
\* order; 95 and 93 per cent of 10.00 both truncate to 9)
EvalParams ==
    { Params(sp, d, 1) : sp \in { <<90, 100>>, <<95, 100>>, <<90, 95>>, <<100, 90>>, <<95, 93>> },
                         d \in { <<1, 30>>, <<0, 30>> } }

\* parameters of the two-sided evaluations (collar, iron condor)
EvalParams2 ==
    { Params(sp, d, 1) : sp \in { <<90, 100>>, <<95, 100>> }, d \in { <<1, 30>>, <<0, 30>> } }

\* parameters of the collar evaluations over the chain with cheap puts:
\* those, and a window ending at 9.50
CollarParams == EvalParams2 \cup { Params(<<90, 95>>, <<0, 30>>, 1) }

\* chains of the covered call (key order matters to it) and of the spreads
CoveredCallMaps == UNION {ExpMaps(1, StrikeMaps(LowKeys, Quotes, e, BOOLEAN)) : e \in ExpDays}
SpreadMaps == UNION {ExpMaps(1, StrikeMaps(LowKeys, Quotes, e, {FALSE})) : e \in ExpDays}

\* chains of the collar and the iron condor: calls, puts, calls above the price
CallMaps2 == UNION {ExpMaps(1, StrikeMaps(MidKeys, FewQuotes, e, {FALSE})) : e \in ExpDays}
PutMaps2 == ExpMaps(1, StrikeMaps(MidKeys, FewQuotes, 10, {FALSE}))
HighCallMaps2 == ExpMaps(1, StrikeMaps(HighKeys, FewQuotes, 10, {FALSE}))

\* a strike map of two strikes, the lower quoted at lo, the higher at hi,
\* expiring on day e
TwoStrikes(k1, k2, lo, hi, e) ==
    << [key |-> k1, opts |-> <<Contract(e, lo, lo)>>], [key |-> k2, opts |-> <<Contract(e, hi, hi)>>] >>

\* a chain whose puts cost less than its calls: strikes 9.5 and 10.0, calls
\* quoted 1.00 and 1.10, puts quoted 0.20 and 1.00, expiring in 10 days
CheapPutCalls == << [exp |-> 1, strikes |-> TwoStrikes(K(9, <<5>>), K(10, <<0>>), 100, 110, 10)] >>
CheapPuts == << [exp |-> 1, strikes |-> TwoStrikes(K(9, <<5>>), K(10, <<0>>), 20, 100, 10)] >>

\* a call chain of three strikes whose middle one, keyed "9.50", no probed
\* format finds: 9.0 quoted 1.50, 9.5 quoted 1.20, 10.0 quoted 1.00
GappedCalls ==
    << [exp |-> 1,
        strikes |-> << [key |-> K(9, <<0>>), opts |-> <<Contract(10, 150, 150)>>],
                       [key |-> K(9, <<5, 0>>), opts |-> <<Contract(10, 120, 120)>>],
                       [key |-> K(10, <<0>>), opts |-> <<Contract(10, 100, 100)>>] >>] >>

\* a put chain with keys "9", "9.50" and "10.0", quoted 1.00, 1.20 and 1.50
MixedPuts ==
    << [exp |-> 1,
        strikes |-> << [key |-> K(9, <<>>), opts |-> <<Contract(10, 100, 100)>>],
                       [key |-> K(9, <<5, 0>>), opts |-> <<Contract(10, 120, 120)>>],
                       [key |-> K(10, <<0>>), opts |-> <<Contract(10, 150, 150)>>] >>] >>

\* the inputs of one evaluation: which evaluator, price, parameters, chain
EvalInput(kind, p, cm, pm) ==
    [kind |-> kind, price |-> EvalPrice, p |-> p, call_map |-> cm, put_map |-> pm]

(***************************************************************************)
(* A second set of evaluations, at price 100.00 with strikes five dollars  *)
(* apart: windows that reach above the price, spreads wider than the       *)
(* largest allowed, expired contracts, chains with two expirations.        *)
(***************************************************************************)

\* the quoted price of these evaluations: 100.00
ScenPrice == 100 * 100

\* strike keys "90.0" .. "110.0"; those of the put side and of the call side
\* of the two-sided evaluations
ScenKeys == << K(90, <<0>>), K(95, <<0>>), K(100, <<0>>), K(105, <<0>>), K(110, <<0>>) >>
PutSideKeys == << K(90, <<0>>), K(95, <<0>>), K(105, <<0>>) >>
CallSideKeys == << K(95, <<0>>), K(105, <<0>>), K(110, <<0>>) >>

\* <<bid, ask>> in cents: mid 13.00, mid 7.00, mid 3.00, ask < bid; mid 3.00,
\* mid 1.00
ScenQuotes == { <<1300, 1300>>, <<700, 700>>, <<300, 300>>, <<300, 200>> }
ScenQuotes2 == { <<300, 300>>, <<100, 100>> }

\* expiration days: in 30 days, yesterday
ScenDays == {30, -1}

\* parameters: the plain window, a window reaching above the price, a
\* negative lower DTE bound, DTE bounds out of order, strike bounds out of order
ScenParams ==
    { Params(<<90, 100>>, <<0, 45>>, 10), Params(<<90, 100>>, <<0, 45>>, 5),
      Params(<<80, 120>>, <<0, 45>>, 10), Params(<<80, 120>>, <<0, 45>>, 5),
      Params(<<80, 120>>, <<-5, 45>>, 10), Params(<<80, 120>>, <<45, 0>>, 10),
      Params(<<100, 90>>, <<0, 45>>, 10) }

\* chains of the one-sided and of the two-sided evaluations
ScenMaps == UNION {ExpMaps(1, StrikeMaps(ScenKeys, ScenQuotes, e, {FALSE})) : e \in ScenDays}
ScenPutMaps2 == ExpMaps(1, StrikeMaps(PutSideKeys, ScenQuotes2, 30, {FALSE}))
ScenCallMaps2 == UNION {ExpMaps(1, StrikeMaps(CallSideKeys, ScenQuotes2, e, {FALSE})) : e \in ScenDays}

\* put and call chains with two expirations (keys 1 and 2, in 30 and in 60
\* days), the same strikes under both, quoted differently
TwoExpPuts ==
    << [exp |-> 1, strikes |-> TwoStrikes(K(90, <<0>>), K(95, <<0>>), 100, 300, 30)],
       [exp |-> 2, strikes |-> TwoStrikes(K(90, <<0>>), K(95, <<0>>), 120, 280, 60)] >>
TwoExpCalls ==
    << [exp |-> 2, strikes |-> TwoStrikes(K(105, <<0>>), K(110, <<0>>), 260, 140, 60)],
       [exp |-> 1, strikes |-> TwoStrikes(K(105, <<0>>), K(110, <<0>>), 300, 100, 30)] >>

\* the inputs of one of these evaluations
ScenInput(kind, p, cm, pm) ==
    [kind |-> kind, price |-> ScenPrice, p |-> p, call_map |-> cm, put_map |-> pm]

(***************************************************************************)
(* Bounded requests, provider answers and configuration files              *)
(***************************************************************************)

\* the latest time of day the clock reaches, in seconds
MaxTime == 1800

\* a chain on which every strategy finds a record at price 10.00
GoodCalls ==
    << [exp |-> 1,
        strikes |-> << [key |-> K(9, <<0>>), opts |-> <<Contract(10, 150, 150)>>],
                       [key |-> K(9, <<5>>), opts |-> <<Contract(10, 110, 110)>>],
                       [key |-> K(10, <<0>>), opts |-> <<Contract(10, 110, 110)>>],
                       [key |-> K(10, <<5>>), opts |-> <<Contract(10, 90, 90)>>] >>] >>
GoodPuts ==
    << [exp |-> 1,
        strikes |-> << [key |-> K(9, <<0>>), opts |-> <<Contract(10, 100, 100)>>],
                       [key |-> K(9, <<5>>), opts |-> <<Contract(10, 120, 120)>>],
                       [key |-> K(10, <<0>>), opts |-> <<Contract(10, 100, 100)>>] >>] >>
GoodChain == [status |-> 200, callExpDateMap |-> GoodCalls, putExpDateMap |-> GoodPuts]

\* a chain whose only strike carries an empty contract list
EmptyContracts == << [exp |-> 1, strikes |-> << [key |-> K(9, <<0>>), opts |-> <<>>] >>] >>
EmptyChain == [status |-> 200, callExpDateMap |-> EmptyContracts, putExpDateMap |-> EmptyContracts]

\* a chain request answered with a server error
FailedChain == [status |-> 500, callExpDateMap |-> <<>>, putExpDateMap |-> <<>>]

\* quote answers
Quote(status, shape, price) == [status |-> status, shape |-> shape, price |-> price]
GoodQuote == Quote(200, "ok", EvalPrice)

\* token endpoint answers
Token(status, refresh_token) == [status |-> status, refresh_token |-> refresh_token]

\* what the provider answers while one symbol is processed
Feed(token, quote, chain) == [token |-> token, quote |-> quote, chain |-> chain]
Good == Feed(Token(200, ""), GoodQuote, GoodChain)
Rotating == Feed(Token(200, "rt1"), GoodQuote, GoodChain)
Denied == Feed(Token(401, ""), GoodQuote, GoodChain)
QuoteError == Feed(Token(200, ""), Quote(500, "ok", 0), GoodChain)
ChainError == Feed(Token(200, ""), GoodQuote, FailedChain)

\* a chain on which the 9.0/10.0 put spread and the 9.0/10.0 call spread of one
\* symbol have the same annualized gain
TiedPuts ==
    << [exp |-> 1,
        strikes |-> << [key |-> K(9, <<0>>), opts |-> <<Contract(10, 40, 40)>>],
                       [key |-> K(10, <<0>>), opts |-> <<Contract(10, 100, 100)>>] >>] >>
Tied ==
    Feed(Token(200, ""), GoodQuote,
         [status |-> 200, callExpDateMap |-> GoodCalls, putExpDateMap |-> TiedPuts])

Feeds ==
    { Good, Rotating, Denied, QuoteError, ChainError, Tied,
      Feed(Token(200, ""), Quote(200, "no_symbol", 0), GoodChain),
      Feed(Token(200, ""), Quote(200, "no_quote", 0), GoodChain),
      Feed(Token(200, ""), Quote(200, "ok", 0), GoodChain),
      Feed(Token(200, ""), GoodQuote, EmptyChain) }

\* the underlying trades half a dollar lower by the second quote request
Moving == Good @@ [later |-> Quote(200, "ok", EvalPrice - 50)]
BatchFeeds == { Good, Denied, QuoteError, ChainError, Moving }

\* the answers for n symbols, in processing order
FeedSeqs(feeds, n) == [1..n -> feeds]

\* request bodies of the /api/fetch-* routes
BaseData ==
    [symbols |-> <<JStr("A"), JStr("b")>>, minStrikePct |-> JInt(90), maxStrikePct |-> JInt(100),
     minDte |-> JInt(0), maxDte |-> JInt(30)]
Datas ==
    { BaseData,
      BaseData @@ [maxSpread |-> JInt(1)],
      [BaseData EXCEPT !.symbols = <<JStr("A")>>] @@ [maxSpread |-> JInt(30)],
      [BaseData EXCEPT !.symbols = <<JStr(" "), JInt(7)>>],
      [BaseData EXCEPT !.symbols = <<>>] @@ [maxSpread |-> JInt(1)],
      [BaseData EXCEPT !.minDte = JFloat(57, 10)],
      [BaseData EXCEPT !.minDte = JFloat(57, 10)] @@ [maxSpread |-> JInt(1)],
      [BaseData EXCEPT !.minStrikePct = JStr("abc")] @@ [maxSpread |-> JInt(1)],
      [BaseData EXCEPT !.maxStrikePct = JNull],
      [BaseData EXCEPT !.maxDte = JStr("30")],
      BaseData @@ [maxSpread |-> JInt(31)],
      BaseData @@ [maxSpread |-> JInt(0)],
      BaseData @@ [maxSpread |-> JStr("wide")],
      [symbols |-> <<JStr("A")>>, minStrikePct |-> JInt(90), maxStrikePct |-> JInt(100),
       minDte |-> JInt(0)] }

\* the number of symbols a request body names (0 when it has no symbols key)
SymbolCount(data) == IF "symbols" \in DOMAIN data THEN Len(ParseSymbols(data.symbols)) ELSE 0

\* keyword arguments of direct fetch_iron_condor_data calls (no route leads to it)
IronCondorArgs ==
    { [symbols |-> symbols, min_strike_pct |-> 90, max_strike_pct |-> 100,
       min_dte |-> 0, max_dte |-> 30, max_spread |-> 1] : symbols \in {<<"A">>, <<"A", "B">>} }

\* configuration files: three enabled stocks; a disabled stock, an override and
\* maxSpread 50; no enabled stock
DefaultParams(max_spread) ==
    [minStrikePct |-> 90, maxStrikePct |-> 100, minDte |-> 0, maxDte |-> 30,
     maxSpread |-> max_spread]
Configs ==
    { [name |-> "three", defaultParams |-> DefaultParams(1),
       stocks |-> << [symbol |-> "A"], [symbol |-> "B", enabled |-> TRUE],
                     [symbol |-> "C", notes |-> "watch"] >>],
      [name |-> "wide", defaultParams |-> DefaultParams(50),
       stocks |-> << [symbol |-> "A"], [symbol |-> "B", enabled |-> FALSE],
                     [symbol |-> "C", minStrikePct |-> 95] >>],
      [name |-> "off", defaultParams |-> DefaultParams(1),
       stocks |-> << [symbol |-> "A", enabled |-> FALSE] >>] }

(***************************************************************************)
(* State.  evalIn, evalOut: the inputs and the result of one evaluation.   *)
(* The service: pc ("idle" or "responded"), the request being answered,    *)
(* upstream (the provider's answers during it), wire (the requests sent    *)
(* to the provider during it), result (the outcome of its fetch_*_data     *)
(* call), response (the HTTP response), schwab_api (the application's      *)
(* SchwabAPI instance), now (utcnow, in seconds), config_file (the         *)
(* contents of stock_config_jsons/put_call_spread.json), backup_file (the  *)
(* contents of put_call_spread.json.backup), oauth_state and               *)
(* new_refresh_token (the module globals of app.py), refresh_token (the    *)
(* attribute schwab_api.refresh_token, absent until                        *)
(* exchange_code_for_token assigns it), env_file (the SCHWAB_REFRESH_TOKEN *)
(* line of .env).                                                          *)
(***************************************************************************)
VARIABLES evalIn, evalOut, pc, request, upstream, wire, result, response,
          schwab_api, now, config_file, backup_file, oauth_state,
          new_refresh_token, refresh_token, env_file

vars == <<evalIn, evalOut, pc, request, upstream, wire, result, response,
          schwab_api, now, config_file, backup_file, oauth_state,
          new_refresh_token, refresh_token, env_file>>

\* the OAuth state of the application and the files next to it
admVars == <<backup_file, oauth_state, new_refresh_token, refresh_token, env_file>>

\* the variables of the service
svcVars == <<pc, request, upstream, wire, result, response, schwab_api, now, config_file,
             admVars>>

\* the refresh token the application is started with (SCHWAB_REFRESH_TOKEN)
REFRESH_TOKEN == "rt0"

\* the application's globals and files at start-up: no OAuth flow started, no
\* backup written, schwab_api.refresh_token not assigned
AtStartUp ==
    /\ oauth_state = None /\ new_refresh_token = None /\ refresh_token = None
    /\ env_file = [str |-> REFRESH_TOKEN] /\ backup_file = NoFile

\* the SchwabAPI instance at start-up: no access token yet
InitialApi == [_access_token |-> "", _token_expiry |-> 0, _refresh_token |-> REFRESH_TOKEN]

\* no request is being handled
NoRequest == [route |-> "none"]
NoResponse == [status |-> 0]

\* the service at rest
Idle ==
    /\ pc = "idle" /\ request = NoRequest /\ upstream = <<>> /\ wire = <<>>
    /\ result = NotCalled /\ response = NoResponse

\* evalOut before the evaluator has run
Pending == [pending |-> TRUE]

EvalInit ==
    /\ Idle /\ schwab_api = InitialApi /\ now = 0 /\ config_file = NoFile /\ AtStartUp
    /\ evalOut = Pending
    /\ \/ \E kind \in {"covered_call", "call_spread", "put_spread", "collar", "iron_condor"} :
            \E p \in (IF kind \in {"collar", "iron_condor"} THEN EvalParams2 ELSE EvalParams) :
            \E cm \in (CASE kind = "covered_call" -> CoveredCallMaps
                         [] kind = "call_spread" -> SpreadMaps
                         [] kind = "put_spread" -> {<<>>}
                         [] kind = "collar" -> CallMaps2
                         [] kind = "iron_condor" -> HighCallMaps2) :
            \E pm \in (CASE kind = "put_spread" -> SpreadMaps
                         [] kind \in {"collar", "iron_condor"} -> PutMaps2
                         [] OTHER -> {<<>>}) :
               evalIn = EvalInput(kind, p, cm, pm)
       \/ \E p \in CollarParams : evalIn = EvalInput("collar", p, CheapPutCalls, CheapPuts)
       \/ \E p \in EvalParams : evalIn = EvalInput("call_spread", p, GappedCalls, <<>>)
       \/ \E p \in EvalParams : evalIn = EvalInput("put_spread", p, <<>>, MixedPuts)

EvalCoveredCall ==
    /\ evalOut = Pending /\ evalIn.kind = "covered_call"
    /\ evalOut' = _fetch_options_chain_eval("SYM", evalIn.price, evalIn.call_map, evalIn.p)
    /\ UNCHANGED <<evalIn, svcVars>>

EvalCollar ==
    /\ evalOut = Pending /\ evalIn.kind = "collar"
    /\ evalOut' = _fetch_stock_collar_eval("SYM", evalIn.price, evalIn.call_map,
                                           evalIn.put_map, evalIn.p)
    /\ UNCHANGED <<evalIn, svcVars>>

EvalCallSpread ==
    /\ evalOut = Pending /\ evalIn.kind = "call_spread"
    /\ evalOut' = _fetch_stock_call_spread_eval("SYM", evalIn.price, evalIn.call_map, evalIn.p)
    /\ UNCHANGED <<evalIn, svcVars>>

EvalPutSpread ==
    /\ evalOut = Pending /\ evalIn.kind = "put_spread"
    /\ evalOut' = _fetch_stock_put_spread_eval("SYM", evalIn.price, evalIn.put_map, evalIn.p)
    /\ UNCHANGED <<evalIn, svcVars>>

EvalIronCondor ==
    /\ evalOut = Pending /\ evalIn.kind = "iron_condor"
    /\ evalOut' = _fetch_stock_iron_condor_eval("SYM", evalIn.price, evalIn.put_map,
                                                evalIn.call_map, evalIn.p)
    /\ UNCHANGED <<evalIn, svcVars>>

EvalNext ==
    \/ EvalCoveredCall
    \/ EvalCollar
    \/ EvalCallSpread
    \/ EvalPutSpread
    \/ EvalIronCondor

EvalSpec == EvalInit /\ [][EvalNext]_vars

\* the evaluations at price 100.00
ScenarioInit ==
    /\ Idle /\ schwab_api = InitialApi /\ now = 0 /\ config_file = NoFile /\ AtStartUp
    /\ evalOut = Pending
    /\ \/ \E kind \in {"covered_call", "call_spread", "put_spread", "collar", "iron_condor"} :
            \E p \in ScenParams :
            \E cm \in (CASE kind \in {"covered_call", "call_spread"} -> ScenMaps
                         [] kind = "put_spread" -> {<<>>}
                         [] OTHER -> ScenCallMaps2) :
            \E pm \in (CASE kind = "put_spread" -> ScenMaps
                         [] kind \in {"collar", "iron_condor"} -> ScenPutMaps2
                         [] OTHER -> {<<>>}) :
               evalIn = ScenInput(kind, p, cm, pm)
       \/ \E p \in ScenParams : evalIn = ScenInput("iron_condor", p, TwoExpCalls, TwoExpPuts)

ScenarioSpec == ScenarioInit /\ [][EvalNext]_vars

(***************************************************************************)
(* The service: one request at a time is handled to its response           *)
(***************************************************************************)

Init ==
    /\ Idle
    /\ schwab_api = InitialApi
    /\ now = 0
    /\ config_file \in {NoFile} \cup Configs
    /\ AtStartUp
    /\ evalIn = [kind |-> "none"] /\ evalOut = Pending

\* the instance a handler starts with: schwab_api, nothing sent yet
Api == [_access_token |-> schwab_api._access_token, _token_expiry |-> schwab_api._token_expiry,
        _refresh_token |-> schwab_api._refresh_token, wire |-> <<>>]

\* a handler ran to its response h = [response, result, api]
Handled(route, input, feeds, h) ==
    /\ pc' = "responded"
    /\ request' = [route |-> route, input |-> input]
    /\ upstream' = feeds
    /\ wire' = h.api.wire
    /\ result' = h.result
    /\ response' = h.response
    /\ schwab_api' = [_access_token |-> h.api._access_token,
                      _token_expiry |-> h.api._token_expiry,
                      _refresh_token |-> h.api._refresh_token]
    /\ UNCHANGED <<now, config_file, admVars, evalIn, evalOut>>

\* POST /api/fetch-options
fetch_options ==
    /\ pc = "idle"
    /\ \E data \in Datas : \E feeds \in FeedSeqs(Feeds, SymbolCount(data)) :
       \E parsed \in {_parse_payload(data)} :
       \E h \in {IF parsed.exc # "none" THEN Rejected(parsed.exc, Api)
                 ELSE IF ~KeywordsFit(parsed.payload, FALSE)
                 THEN Mismatch(Api)
                 ELSE Bind(fetch_options_data(Api, now, parsed.payload.symbols, feeds,
                                             parsed.payload),
                           LAMBDA r : RouteDone(r))} :
          Handled("fetch_options", data, feeds, h)

\* POST /api/fetch-collar
fetch_collar ==
    /\ pc = "idle"
    /\ \E data \in Datas : \E feeds \in FeedSeqs(Feeds, SymbolCount(data)) :
       \E parsed \in {_parse_payload(data)} :
       \E h \in {IF parsed.exc # "none" THEN Rejected(parsed.exc, Api)
                 ELSE IF ~KeywordsFit(parsed.payload, FALSE)
                 THEN Mismatch(Api)
                 ELSE Bind(fetch_collar_data(Api, now, parsed.payload.symbols, feeds,
                                            parsed.payload),
                           LAMBDA r : RouteDone(r))} :
          Handled("fetch_collar", data, feeds, h)

\* POST /api/fetch-call-spread
fetch_call_spread ==
    /\ pc = "idle"
    /\ \E data \in Datas : \E feeds \in FeedSeqs(Feeds, SymbolCount(data)) :
       \E parsed \in {_parse_payload(data)} :
       \E h \in {IF parsed.exc # "none" THEN Rejected(parsed.exc, Api)
                 ELSE IF ~KeywordsFit(parsed.payload, TRUE)
                 THEN Mismatch(Api)
                 ELSE Bind(fetch_call_spread_data(Api, now, parsed.payload.symbols, feeds,
                                                 parsed.payload),
                           LAMBDA r : RouteDone(r))} :
          Handled("fetch_call_spread", data, feeds, h)

\* POST /api/fetch-put-spread
fetch_put_spread ==
    /\ pc = "idle"
    /\ \E data \in Datas : \E feeds \in FeedSeqs(Feeds, SymbolCount(data)) :
       \E parsed \in {_parse_payload(data)} :
       \E h \in {IF parsed.exc # "none" THEN Rejected(parsed.exc, Api)
                 ELSE IF ~KeywordsFit(parsed.payload, TRUE)
                 THEN Mismatch(Api)
                 ELSE Bind(fetch_put_spread_data(Api, now, parsed.payload.symbols, feeds,
                                                parsed.payload),
                           LAMBDA r : RouteDone(r))} :
          Handled("fetch_put_spread", data, feeds, h)

\* POST /api/fetch-put-call-spread
fetch_put_call_spread ==
    /\ pc = "idle"
    /\ \E data \in Datas : \E feeds \in FeedSeqs(Feeds, SymbolCount(data)) :
       \E parsed \in {_parse_payload(data)} :
       \E h \in {IF parsed.exc # "none" THEN Rejected(parsed.exc, Api)
                 ELSE IF ~KeywordsFit(parsed.payload, TRUE)
                 THEN Mismatch(Api)
                 ELSE Bind(fetch_put_call_spread_data(Api, now, parsed.payload.symbols, feeds,
                                                     parsed.payload),
                           LAMBDA r : RouteDone(r))} :
          Handled("fetch_put_call_spread", data, feeds, h)

\* a direct call of SchwabAPI.fetch_iron_condor_data
CallIronCondor ==
    /\ pc = "idle"
    /\ \E args \in IronCondorArgs : \E feeds \in FeedSeqs(Feeds, Len(args.symbols)) :
          \E h \in {Bind(fetch_iron_condor_data(Api, now, args.symbols, feeds, args),
                         LAMBDA r : RouteDone(r))} :
             Handled("fetch_iron_condor_data", args, feeds, h)

\* POST /api/batch-run/put-call-spread
batch_run_put_call_spread ==
    /\ pc = "idle"
    /\ \E feeds \in FeedSeqs(BatchFeeds,
                             IF config_file = NoFile THEN 0 ELSE Len(EnabledStocks(config_file))) :
          \E h \in {BatchRun(Api, now, config_file, feeds)} :
             Handled("batch_run_put_call_spread", config_file, feeds, h)

\* the response is sent; the service is at rest again
Respond ==
    /\ pc = "responded"
    /\ pc' = "idle" /\ request' = NoRequest /\ upstream' = <<>> /\ wire' = <<>>
    /\ result' = NotCalled /\ response' = NoResponse
    /\ UNCHANGED <<schwab_api, now, config_file, admVars, evalIn, evalOut>>

\* time passes between requests: long enough for an access token to expire
Tick ==
    /\ pc = "idle"
    /\ now + ExpiresIn <= MaxTime
    /\ now' = now + ExpiresIn
    /\ UNCHANGED <<pc, request, upstream, wire, result, response, schwab_api, config_file,
                   admVars, evalIn, evalOut>>

Next ==
    \/ fetch_options
    \/ fetch_collar
    \/ fetch_call_spread
    \/ fetch_put_spread
    \/ fetch_put_call_spread
    \/ CallIronCondor
    \/ batch_run_put_call_spread
    \/ Respond
    \/ Tick

Spec == Init /\ [][Next]_vars

(***************************************************************************)
(* Properties of the evaluators (checked under EvalSpec)                   *)
(***************************************************************************)

\* the records of a finished evaluation by the evaluator `kind`
Emitted(kind) ==
    IF evalOut # Pending /\ evalIn.kind = kind THEN evalOut.records ELSE <<>>

\* bid > 0, ask > 0 and ask >= bid
Tradable(bid, ask) == bid > 0 /\ ask > 0 /\ ask >= bid

\* price*min_strike_pct/100 <= strike <= price*max_strike_pct/100, exactly
InWindow(strike, price, lo_pct, hi_pct) ==
    price * lo_pct <= strike * 100 /\ strike * 100 <= price * hi_pct

\* C7: every emitted record's profitability field is strictly positive:
\* collar > 0 in collar records, maxGain > 0 in call-debit-spread records,
\* creditReceived > 0 in put-credit-spread records, totalCredit > 0 in
\* iron-condor records.
C7_ProfitabilityPositive ==
    /\ \A i \in 1..Len(Emitted("collar")) : Emitted("collar")[i].collar > 0
    /\ \A i \in 1..Len(Emitted("call_spread")) : Emitted("call_spread")[i].maxGain > 0
    /\ \A i \in 1..Len(Emitted("put_spread")) : Emitted("put_spread")[i].creditReceived > 0
    /\ \A i \in 1..Len(Emitted("iron_condor")) : Emitted("iron_condor")[i].totalCredit > 0

\* C7 happens: a collar was evaluated over a chain holding both a strike
\* whose collar value is positive (emitted) and a fully quoted strike in range
\* whose collar value is not (dropped)
C7_Witness ==
    /\ evalOut # Pending /\ evalIn.kind = "collar"
    /\ Len(evalOut.records) = 1
    /\ Len(evalIn.call_map) = 1 /\ Len(evalIn.call_map[1].strikes) = 2
    /\ \A i \in 1..2 : /\ Len(evalIn.call_map[1].strikes[i].opts) = 1
                       /\ Tradable(evalIn.call_map[1].strikes[i].opts[1].bid,
                                   evalIn.call_map[1].strikes[i].opts[1].ask)
                       /\ evalIn.call_map[1].strikes[i].opts[1].expirationDate = 10
    /\ Len(evalIn.put_map) = 1
    /\ \A i \in 1..2 : /\ HasKey(evalIn.put_map[1].strikes, evalIn.call_map[1].strikes[i].key)
                       /\ Len(GetOpts(evalIn.put_map[1].strikes,
                                      evalIn.call_map[1].strikes[i].key)) = 1
                       /\ Tradable(GetOpts(evalIn.put_map[1].strikes,
                                           evalIn.call_map[1].strikes[i].key)[1].bid,
                                   GetOpts(evalIn.put_map[1].strikes,
                                           evalIn.call_map[1].strikes[i].key)[1].ask)
    /\ evalIn.p.min_strike_pct = 90 /\ evalIn.p.max_strike_pct = 100

\* C8: every record of the put credit spread evaluator has creditReceived > 0
\* and maxRisk > 0 (a pair whose credit is at least the spread width times
\* 100 is dropped).
C8_PutSpreadCreditAndRiskPositive ==
    \A i \in 1..Len(Emitted("put_spread")) :
        /\ Emitted("put_spread")[i].creditReceived > 0
        /\ Emitted("put_spread")[i].maxRisk > 0

\* C9: every option leg of every emitted record, of every evaluator, is
\* tradable: bid > 0, ask > 0 and ask >= bid.
C9_LegsTradable ==
    /\ \A i \in 1..Len(Emitted("covered_call")) :
          Tradable(Emitted("covered_call")[i].bid, Emitted("covered_call")[i].ask)
    /\ \A i \in 1..Len(Emitted("collar")) :
          /\ Tradable(Emitted("collar")[i].callBid, Emitted("collar")[i].callAsk)
          /\ Tradable(Emitted("collar")[i].putBid, Emitted("collar")[i].putAsk)
    /\ \A i \in 1..Len(Emitted("call_spread")) :
          /\ Tradable(Emitted("call_spread")[i].lowerBid, Emitted("call_spread")[i].lowerAsk)
          /\ Tradable(Emitted("call_spread")[i].upperBid, Emitted("call_spread")[i].upperAsk)
    /\ \A i \in 1..Len(Emitted("put_spread")) :
          /\ Tradable(Emitted("put_spread")[i].lowerBid, Emitted("put_spread")[i].lowerAsk)
          /\ Tradable(Emitted("put_spread")[i].higherBid, Emitted("put_spread")[i].higherAsk)
    /\ \A i \in 1..Len(Emitted("iron_condor")) :
          /\ Tradable(Emitted("iron_condor")[i].putLowerBid, Emitted("iron_condor")[i].putLowerAsk)
          /\ Tradable(Emitted("iron_condor")[i].putHigherBid, Emitted("iron_condor")[i].putHigherAsk)
          /\ Tradable(Emitted("iron_condor")[i].callLowerBid, Emitted("iron_condor")[i].callLowerAsk)
          /\ Tradable(Emitted("iron_condor")[i].callHigherBid, Emitted("iron_condor")[i].callHigherAsk)

\* C10: no emitted record of any evaluator contains a strike outside
\* price*minStrikePct/100 <= s <= price*maxStrikePct/100, the bounds computed
\* without rounding.  (The call legs of an iron condor are held to the
\* mirrored window price*(2 - maxStrikePct/100) .. price*(2 - minStrikePct/100).)
C10_EmittedStrikesInWindow ==
    /\ \A i \in 1..Len(Emitted("covered_call")) :
          InWindow(Emitted("covered_call")[i].strike, evalIn.price,
                   evalIn.p.min_strike_pct, evalIn.p.max_strike_pct)
    /\ \A i \in 1..Len(Emitted("collar")) :
          InWindow(Emitted("collar")[i].strike, evalIn.price,
                   evalIn.p.min_strike_pct, evalIn.p.max_strike_pct)
    /\ \A i \in 1..Len(Emitted("call_spread")) :
          /\ InWindow(Emitted("call_spread")[i].lowerStrike, evalIn.price,
                      evalIn.p.min_strike_pct, evalIn.p.max_strike_pct)
          /\ InWindow(Emitted("call_spread")[i].upperStrike, evalIn.price,
                      evalIn.p.min_strike_pct, evalIn.p.max_strike_pct)
    /\ \A i \in 1..Len(Emitted("put_spread")) :
          /\ InWindow(Emitted("put_spread")[i].lowerStrike, evalIn.price,
                      evalIn.p.min_strike_pct, evalIn.p.max_strike_pct)
          /\ InWindow(Emitted("put_spread")[i].higherStrike, evalIn.price,
                      evalIn.p.min_strike_pct, evalIn.p.max_strike_pct)
    /\ \A i \in 1..Len(Emitted("iron_condor")) :
          /\ InWindow(Emitted("iron_condor")[i].putLowerStrike, evalIn.price,
                      evalIn.p.min_strike_pct, evalIn.p.max_strike_pct)
          /\ InWindow(Emitted("iron_condor")[i].putHigherStrike, evalIn.price,
                      evalIn.p.min_strike_pct, evalIn.p.max_strike_pct)
          /\ InWindow(Emitted("iron_condor")[i].callLowerStrike, evalIn.price,
                      200 - evalIn.p.max_strike_pct, 200 - evalIn.p.min_strike_pct)
          /\ InWindow(Emitted("iron_condor")[i].callHigherStrike, evalIn.price,
                      200 - evalIn.p.max_strike_pct, 200 - evalIn.p.min_strike_pct)


(***************************************************************************)
(* Properties of the service (checked under Spec)                          *)
(***************************************************************************)

\* a fetch_*_data call was made and has ended
EntryCalled == pc = "responded" /\ result.called

\* the symbols the entry point was called with
CalledSymbols ==
    IF request.route = "fetch_iron_condor_data" THEN request.input.symbols
    ELSE ParseSymbols(request.input.symbols)

\* the provider fails the quote or the chain of a symbol: non-200 status, no
\* quote data, no price (missing or zero)
FeedFails(feed) ==
    \/ feed.quote.status # 200 \/ feed.quote.shape # "ok" \/ feed.quote.price = 0
    \/ feed.chain.status # 200

\* the token endpoint answers 200 throughout the request
TokensGranted == \A i \in 1..Len(upstream) : upstream[i].token.status = 200

\* a request for the symbol was sent to the provider
Fetched(symbol) == \E k \in 1..Len(wire) : wire[k].kind = "quote" /\ wire[k].symbol = symbol

BatchSecondFails ==
    /\ pc = "responded" /\ request.route = "batch_run_put_call_spread"
    /\ Len(upstream) = 3
    /\ upstream[1].token.status = 200
    /\ ~FeedFails(upstream[1]) /\ FeedFails(upstream[2]) /\ ~FeedFails(upstream[3])

\* the stocks the batch run processes
BatchStocks == EnabledStocks(request.input)

\* what fetch_put_call_spread_data returns for one stock on its own
StockRecords(i) ==
    Noted(fetch_put_call_spread_data(
              [_access_token |-> "access", _token_expiry |-> now + ExpiresIn,
               _refresh_token |-> "rt0", wire |-> <<>>],
              now, <<BatchStocks[i].symbol>>, <<upstream[i]>>,
              StockPayload(request.input, BatchStocks[i])).records,
          BatchStocks[i])

\* the elements of a sequence
Range(seq) == {seq[i] : i \in 1..Len(seq)}

\* the quote and chain requests sent for a symbol
CallsFor(symbol) ==
    Cardinality({k \in 1..Len(wire) : wire[k].kind \in {"quote", "chain"}
                                      /\ wire[k].symbol = symbol})

\* C2: in the batch run over 3 stocks where the 2nd fails, the response holds
\* the records of stocks 1 and 3, exactly one error entry, naming stock 2,
\* and apiCalls is the sum of the calls made for stocks 1 and 3 only (the
\* calls made for stock 2 are not counted).
C2_BatchPartialFailure ==
    BatchSecondFails
    => /\ response.status = 200
       /\ Range(response.records) = Range(StockRecords(1)) \cup Range(StockRecords(3))
       /\ Len(response.records) = Len(StockRecords(1)) + Len(StockRecords(3))
       /\ Len(response.summary.errors) = 1
       /\ response.summary.errors[1].symbol = BatchStocks[2].symbol
       /\ response.apiCalls = CallsFor(BatchStocks[1].symbol) + CallsFor(BatchStocks[3].symbol)
       /\ CallsFor(BatchStocks[2].symbol) > 0

\* C2 happens: such a batch run, with records of both stock 1 and stock 3
C2_Witness ==
    /\ BatchSecondFails
    /\ \E n \in 1..Len(response.records) : response.records[n].symbol = BatchStocks[1].symbol
    /\ \E n \in 1..Len(response.records) : response.records[n].symbol = BatchStocks[3].symbol
    /\ response.summary.failed = 1 /\ response.summary.successful = 2

\* C3: when an access-token refresh is answered with a non-200 status, the
\* failure aborts the whole batch: nothing is sent to the provider after the
\* refused refresh, and the caller gets no records and a single error, from
\* every fetch_*_data entry point and from the batch run.
C3_TransportFailureAbortsBatch ==
    \A k \in 1..Len(wire) :
        (pc = "responded" /\ wire[k].kind = "token" /\ wire[k].status # 200)
        => /\ k = Len(wire)
           /\ result.called => (result.exc = "SchwabAPIError" /\ result.records = <<>>)
           /\ request.route = "batch_run_put_call_spread"
              => \/ response.status # 200
                 \/ (response.records = <<>> /\ Len(response.summary.errors) = 1)

\* a strike-percentage or DTE value that is not an integer
NotInteger(x) ==
    \/ x.t = "null"
    \/ x.t = "float" /\ x.n % x.d # 0
    \/ x.t = "str" /\ x.s \notin DOMAIN IntLiterals

\* a request body the claim calls invalid: a bound that is not an integer, an
\* empty symbol list, a max spread outside [1, 30]
InvalidData(data) ==
    \/ \E key \in {"minStrikePct", "maxStrikePct", "minDte", "maxDte"} \cap DOMAIN data :
          NotInteger(data[key])
    \/ "symbols" \in DOMAIN data /\ ParseSymbols(data.symbols) = <<>>
    \/ "maxSpread" \in DOMAIN data
       /\ (NotInteger(data.maxSpread) \/ ~(PyInt(data.maxSpread).v \in 1..30))

\* a configuration with an enabled stock whose max spread is outside [1, 30]
InvalidConfig(config) ==
    \E i \in 1..Len(EnabledStocks(config)) :
        StockPayload(config, EnabledStocks(config)[i]).max_spread \notin 1..30

\* the five /api/fetch-* routes
FetchRoutes ==
    {"fetch_options", "fetch_collar", "fetch_call_spread", "fetch_put_spread",
     "fetch_put_call_spread"}

\* C4: on every route that runs a strategy, an invalid request (non-integer
\* strike-percentage or DTE bounds, such as 5.7; no symbol; max spread outside
\* [1, 30]) is rejected as invalid (400) before anything is sent to the
\* provider.
C4_InvalidRequestRejectedBeforeUpstream ==
    /\ (pc = "responded" /\ request.route \in FetchRoutes /\ InvalidData(request.input))
       => (response.status = 400 /\ wire = <<>>)
    /\ (pc = "responded" /\ request.route = "batch_run_put_call_spread"
        /\ request.input # NoFile /\ InvalidConfig(request.input))
       => (response.status = 400 /\ wire = <<>>)

\* C5: a call-spread, put-spread or put-call-spread request without maxSpread
\* is rejected as invalid (400) and nothing is fetched; a covered-call or
\* collar request without it is evaluated.
C5_MaxSpreadRequiredForSpreads ==
    (pc = "responded" /\ request.route \in FetchRoutes
     /\ "maxSpread" \notin DOMAIN request.input /\ _parse_payload(request.input).exc = "none")
    => IF request.route \in {"fetch_options", "fetch_collar"}
       THEN result.called
       ELSE response.status = 400 /\ wire = <<>>

\* C6: whatever the provider answers, a fetch_*_data call returns or raises
\* SchwabAPIError; no other exception reaches the caller.
C6_OnlySchwabAPIErrorEscapes ==
    EntryCalled => result.exc \in {"none", "SchwabAPIError"}

(***************************************************************************)
(* Properties of the evaluations at price 100.00 (checked under            *)
(* ScenarioSpec)                                                           *)
(***************************************************************************)

\* C11: the spread width filter is inclusive: every emitted record of the
\* call spread, the put spread and the iron condor (both of its sides) has a
\* spread width, the distance of its two strikes, of at most maxSpread; a
\* pair exactly maxSpread wide is emitted, a wider one never.
C11_SpreadWidthWithinMax ==
    /\ \A i \in 1..Len(Emitted("call_spread")) :
          /\ Emitted("call_spread")[i].spreadWidth
               = Emitted("call_spread")[i].upperStrike - Emitted("call_spread")[i].lowerStrike
          /\ Emitted("call_spread")[i].spreadWidth <= evalIn.p.max_spread * 100
    /\ \A i \in 1..Len(Emitted("put_spread")) :
          /\ Emitted("put_spread")[i].spreadWidth
               = Emitted("put_spread")[i].higherStrike - Emitted("put_spread")[i].lowerStrike
          /\ Emitted("put_spread")[i].spreadWidth <= evalIn.p.max_spread * 100
    /\ \A i \in 1..Len(Emitted("iron_condor")) :
          /\ Emitted("iron_condor")[i].putHigherStrike - Emitted("iron_condor")[i].putLowerStrike
               <= evalIn.p.max_spread * 100
          /\ Emitted("iron_condor")[i].callHigherStrike - Emitted("iron_condor")[i].callLowerStrike
               <= evalIn.p.max_spread * 100

\* C11 happens: a call spread exactly maxSpread wide (5.00) is emitted
C11_Witness ==
    /\ evalIn.kind = "call_spread" /\ evalIn.p.max_spread = 5
    /\ Len(Emitted("call_spread")) = 1
    /\ Emitted("call_spread")[1].spreadWidth = 5 * 100

(***************************************************************************)
(* Properties of the ranking and of the upstream requests (checked under   *)
(* Spec)                                                                   *)
(***************************************************************************)

\* the annualized gain of a record: annPctGain of the spreads and the iron
\* condor, annReturn of the collar, annPctCall of the covered call
AnnualizedGain(rec) ==
    IF "annPctGain" \in DOMAIN rec THEN rec.annPctGain
    ELSE IF "annReturn" \in DOMAIN rec THEN rec.annReturn
    ELSE rec.metrics.annPctCall

\* a record sequence in non-increasing order of annualized gain
Ranked(records) ==
    \A i, j \in 1..Len(records) :
        i < j => ~FracLess(AnnualizedGain(records[i]), AnnualizedGain(records[j]))

\* C12: whatever the strategy, the record sequence an entry point returns
\* over all requested symbols is sorted by annualized gain, non-increasing.
C12_RecordsRankedByAnnualizedGain ==
    (EntryCalled /\ result.exc = "none") => Ranked(result.records)

\* the keyword arguments the entry point was called with
CalledParams ==
    IF request.route = "fetch_iron_condor_data" THEN request.input
    ELSE _parse_payload(request.input).payload

\* the records of the i-th symbol of a put-call spread call in the order they
\* are appended: the call spreads as enumerated, then the put spreads
PutCallEnumerated(i) ==
    Tagged(_fetch_stock_call_spread_eval(CalledSymbols[i], upstream[i].quote.price,
                                         upstream[i].chain.callExpDateMap,
                                         CalledParams).records, "call_spread")
    \o Tagged(_fetch_stock_put_spread_eval(CalledSymbols[i], upstream[i].quote.price,
                                           upstream[i].chain.putExpDateMap,
                                           CalledParams).records, "put_spread")

\* the iron condors of the i-th symbol in the order they are enumerated
CondorEnumerated(i) ==
    _fetch_stock_iron_condor_eval(CalledSymbols[i], upstream[i].quote.price,
                                  upstream[i].chain.putExpDateMap,
                                  upstream[i].chain.callExpDateMap, CalledParams).records

\* the records of the finished request in insertion order: symbol after
\* symbol in request order (batch: stock after stock, each stock's records as
\* its fetch_put_call_spread_data call returned them)
Inserted ==
    IF request.route = "fetch_put_call_spread"
    THEN ConcatMap(1, Len(upstream), LAMBDA i : PutCallEnumerated(i))
    ELSE IF request.route = "fetch_iron_condor_data"
    THEN ConcatMap(1, Len(upstream), LAMBDA i : CondorEnumerated(i))
    ELSE ConcatMap(1, Len(upstream), LAMBDA i : StockRecords(i))

\* the ranked records of the finished request
RankedRecords ==
    IF request.route = "batch_run_put_call_spread" THEN response.records ELSE result.records

\* a ranked request has ended with records
RankedDone ==
    /\ pc = "responded"
    /\ \/ request.route \in {"fetch_put_call_spread", "fetch_iron_condor_data"}
          /\ result.called /\ result.exc = "none"
       \/ request.route = "batch_run_put_call_spread" /\ response.status = 200

\* a is inserted before b
InsertedBefore(a, b) ==
    \E m, n \in 1..Len(Inserted) : m < n /\ Inserted[m] = a /\ Inserted[n] = b

\* C13: the ranking of the put-call spread, the iron condor and the batch run
\* is stable: of two records with the same annualized gain the one inserted
\* first comes first (the earlier-fetched symbol's record, and within one
\* symbol the earlier-enumerated combination).
C13_RankingStable ==
    RankedDone
    => \A i, j \in 1..Len(RankedRecords) :
          (i < j /\ FracEq(RankedRecords[i].annPctGain, RankedRecords[j].annPctGain))
          => InsertedBefore(RankedRecords[i], RankedRecords[j])

\* C13 happens: a put-call spread result over two symbols in which a record
\* ties with a record of the other symbol and with a record of its own symbol
C13_Witness ==
    /\ RankedDone /\ request.route = "fetch_put_call_spread" /\ Len(upstream) = 2
    /\ \E i, j \in 1..Len(result.records) :
          /\ i < j /\ result.records[i].symbol # result.records[j].symbol
          /\ FracEq(result.records[i].annPctGain, result.records[j].annPctGain)
    /\ \E i, j \in 1..Len(result.records) :
          /\ i < j /\ result.records[i].symbol = result.records[j].symbol
          /\ FracEq(result.records[i].annPctGain, result.records[j].annPctGain)

\* the quote and chain requests sent to the provider, in the order sent
DataRequests == SelectSeq(wire, LAMBDA w : w.kind \in {"quote", "chain"})

\* C14: a fetch_*_data call that succeeds has sent, for each symbol in request
\* order, exactly one quote request and then one chain request, and the call
\* count it returns is the number of these requests, 2 x the number of
\* symbols; this for every strategy, the put-call spread included.
C14_OneQuoteOneChainPerSymbol ==
    (EntryCalled /\ result.exc = "none")
    => /\ result.api_calls = Len(DataRequests)
       /\ result.api_calls = 2 * Len(CalledSymbols)
       /\ \A i \in 1..Len(CalledSymbols) :
             /\ 2 * i <= Len(DataRequests)
             /\ DataRequests[2 * i - 1].kind = "quote"
             /\ DataRequests[2 * i - 1].symbol = CalledSymbols[i]
             /\ DataRequests[2 * i].kind = "chain"
             /\ DataRequests[2 * i].symbol = CalledSymbols[i]

\* a SchwabAPI instance holding a valid access token
FreshApi ==
    [_access_token |-> "access", _token_expiry |-> now + ExpiresIn,
     _refresh_token |-> "rt0", wire |-> <<>>]

\* what the call debit spread and the put credit spread entry points return
\* for the symbols and parameters of the finished request, with their tags
CallSpreadPart ==
    Tagged(fetch_call_spread_data(FreshApi, now, CalledSymbols, upstream, CalledParams).records,
           "call_spread")
PutSpreadPart ==
    Tagged(fetch_put_spread_data(FreshApi, now, CalledSymbols, upstream, CalledParams).records,
           "put_spread")

\* how many times a record occurs in a sequence
Count(seq, rec) == Cardinality({i \in 1..Len(seq) : seq[i] = rec})

\* a put-call spread call has returned
PutCallDone ==
    EntryCalled /\ request.route = "fetch_put_call_spread" /\ result.exc = "none"

\* C15: the put-call spread result holds exactly the records of the call debit
\* spread and of the put credit spread for the same symbols and parameters (each
\* as many times as the two return it, none lost, none added), each tagged
\* 'call_spread' or 'put_spread' after the evaluator it comes from, in one
\* sequence ranked by annPctGain descending.
C15_PutCallIsTaggedUnion ==
    PutCallDone
    => /\ Len(result.records) = Len(CallSpreadPart) + Len(PutSpreadPart)
       /\ \A rec \in Range(result.records) \cup Range(CallSpreadPart) \cup Range(PutSpreadPart) :
             Count(result.records, rec) = Count(CallSpreadPart, rec) + Count(PutSpreadPart, rec)
       /\ \A i \in 1..Len(result.records) :
             result.records[i].strategyType \in {"call_spread", "put_spread"}
       /\ Ranked(result.records)

\* C15 happens: a put-call spread result over two symbols that holds call
\* spreads and put spreads of both, a put spread ranked above a call spread
C15_Witness ==
    /\ PutCallDone /\ Len(upstream) = 2
    /\ \A s \in Range(CalledSymbols) : \A tag \in {"call_spread", "put_spread"} :
          \E i \in 1..Len(result.records) :
             result.records[i].symbol = s /\ result.records[i].strategyType = tag
    /\ \E i, j \in 1..Len(result.records) :
          /\ i < j /\ result.records[i].strategyType = "put_spread"
          /\ result.records[j].strategyType = "call_spread"
          /\ FracLess(result.records[j].annPctGain, result.records[i].annPctGain)

(***************************************************************************)
(* Properties of the iron condor (checked under ScenarioSpec)              *)
(***************************************************************************)

\* under expiration e of exp_map there is a strike of this value whose first
\* contract carries this bid and ask
LegAt(exp_map, e, strike, bid, ask) ==
    \E i \in 1..Len(exp_map) : \E k \in 1..Len(exp_map[i].strikes) :
        /\ exp_map[i].exp = e
        /\ float(exp_map[i].strikes[k].key) = strike
        /\ exp_map[i].strikes[k].opts # <<>>
        /\ exp_map[i].strikes[k].opts[1].bid = bid
        /\ exp_map[i].strikes[k].opts[1].ask = ask

\* the four legs of an iron condor record stand under expiration e of the chain
LegsUnder(rec, e) ==
    /\ LegAt(evalIn.put_map, e, rec.putLowerStrike, rec.putLowerBid, rec.putLowerAsk)
    /\ LegAt(evalIn.put_map, e, rec.putHigherStrike, rec.putHigherBid, rec.putHigherAsk)
    /\ LegAt(evalIn.call_map, e, rec.callLowerStrike, rec.callLowerBid, rec.callLowerAsk)
    /\ LegAt(evalIn.call_map, e, rec.callHigherStrike, rec.callHigherBid, rec.callHigherAsk)

\* the expiration keys of a chain
ExpKeys(exp_map) == {exp_map[i].exp : i \in 1..Len(exp_map)}

\* C16: every iron condor record pairs a put spread and a call spread of the
\* same width and the same expiration: putHigherStrike - putLowerStrike =
\* callHigherStrike - callLowerStrike = spreadWidth, the four legs stand under
\* one expiration of the chain, totalCredit = putCredit + callCredit and
\* maxRisk = spreadWidth*100 - totalCredit > 0.
C16_CondorPairsMatchingSpreads ==
    \A i \in 1..Len(Emitted("iron_condor")) :
        /\ Emitted("iron_condor")[i].putHigherStrike - Emitted("iron_condor")[i].putLowerStrike
           = Emitted("iron_condor")[i].spreadWidth
        /\ Emitted("iron_condor")[i].callHigherStrike - Emitted("iron_condor")[i].callLowerStrike
           = Emitted("iron_condor")[i].spreadWidth
        /\ \E e \in ExpKeys(evalIn.put_map) \cap ExpKeys(evalIn.call_map) :
              LegsUnder(Emitted("iron_condor")[i], e)
        /\ Emitted("iron_condor")[i].totalCredit
           = Emitted("iron_condor")[i].putCredit + Emitted("iron_condor")[i].callCredit
        /\ Emitted("iron_condor")[i].maxRisk
           = Emitted("iron_condor")[i].spreadWidth * 100 - Emitted("iron_condor")[i].totalCredit
        /\ Emitted("iron_condor")[i].maxRisk > 0

\* C16 happens: on the chain with two expirations an iron condor is emitted;
\* its legs are those of the first expiration and not those of the second
C16_Witness ==
    /\ evalIn.kind = "iron_condor" /\ evalIn.put_map = TwoExpPuts
    /\ Len(Emitted("iron_condor")) > 0
    /\ LegsUnder(Emitted("iron_condor")[1], 1)
    /\ ~LegsUnder(Emitted("iron_condor")[1], 2)
    /\ Emitted("iron_condor")[1].spreadWidth = 500
    /\ Emitted("iron_condor")[1].maxRisk = 10000

\* C17: for any accepted parameters (strike percentages above 100 included)
\* every iron condor record has its put strikes below the underlying price and
\* its call strikes above it, putHigherStrike < price < callLowerStrike, the
\* put strikes lying in [price*minStrikePct/100, price*maxStrikePct/100] and
\* the call strikes in the mirror image
\* [price*(2 - maxStrikePct/100), price*(2 - minStrikePct/100)].
C17_CondorStraddlesThePrice ==
    \A i \in 1..Len(Emitted("iron_condor")) :
        /\ Emitted("iron_condor")[i].putHigherStrike < evalIn.price
        /\ evalIn.price < Emitted("iron_condor")[i].callLowerStrike
        /\ InWindow(Emitted("iron_condor")[i].putLowerStrike, evalIn.price,
                    evalIn.p.min_strike_pct, evalIn.p.max_strike_pct)
        /\ InWindow(Emitted("iron_condor")[i].putHigherStrike, evalIn.price,
                    evalIn.p.min_strike_pct, evalIn.p.max_strike_pct)
        /\ InWindow(Emitted("iron_condor")[i].callLowerStrike, evalIn.price,
                    200 - evalIn.p.max_strike_pct, 200 - evalIn.p.min_strike_pct)
        /\ InWindow(Emitted("iron_condor")[i].callHigherStrike, evalIn.price,
                    200 - evalIn.p.max_strike_pct, 200 - evalIn.p.min_strike_pct)

(***************************************************************************)
(* Properties of the bounds (checked under EvalSpec)                       *)
(***************************************************************************)

\* the bounds of the evaluation are out of order
OutOfOrder(p) == p.min_strike_pct > p.max_strike_pct \/ p.min_dte > p.max_dte

\* C18: out-of-order bounds yield zero matches: whenever minStrikePct >
\* maxStrikePct or minDte > maxDte the evaluator returns no records, whatever
\* the price and the chain; and every emitted record has
\* minDte <= dte <= maxDte.
C18_OutOfOrderBoundsYieldNothing ==
    evalOut # Pending
    => /\ OutOfOrder(evalIn.p) => evalOut.records = <<>>
       /\ \A i \in 1..Len(evalOut.records) :
             /\ evalIn.p.min_dte <= evalOut.records[i].dte
             /\ evalOut.records[i].dte <= evalIn.p.max_dte

(***************************************************************************)
(* Properties of the metrics (checked under ScenarioSpec)                  *)
(***************************************************************************)

\* annualize(pct, dte): pct * 365 / dte when dte > 0, else 0
AnnualizationLaw(pct, dte) ==
    IF dte > 0 THEN FracOver(FracTimes(pct, 365), dte) ELSE FracZero

\* the return of a record in per cent: pctCall of the covered call,
\* collar / netCost * 100 of the collar, pctGain of the spreads and the condor
PctReturn(rec) ==
    IF "metrics" \in DOMAIN rec THEN rec.metrics.pctCall
    ELSE IF "collar" \in DOMAIN rec THEN FracTimes(Frac(rec.collar, rec.netCost), 100)
    ELSE rec.pctGain

\* C19: every strategy annualizes by the same law: the annualized field of a
\* record (annPctCall, annReturn, annPctGain) is its per cent return * 365 /
\* dte when dte > 0 and 0 otherwise, dte zero or negative.
C19_OneAnnualizationLaw ==
    evalOut # Pending
    => \A i \in 1..Len(evalOut.records) :
          FracEq(AnnualizedGain(evalOut.records[i]),
                 AnnualizationLaw(PctReturn(evalOut.records[i]), evalOut.records[i].dte))

(***************************************************************************)
(* Properties of the call debit spread (checked under ScenarioSpec)        *)
(***************************************************************************)

\* the mid price of the first contract of a strike
MidOf(entry) == (entry.opts[1].bid + entry.opts[1].ask) \div 2

\* a strike of the chain has a first contract, and it is tradable
TradableLeg(entry) ==
    entry.opts # <<>> /\ Tradable(entry.opts[1].bid, entry.opts[1].ask)

\* strikes a (lower) and b (upper) of one expiration form a candidate pair of
\* the call spread: both in range, at most max_spread apart, both tradable, the
\* expiration within the DTE bounds
CandidatePair(strikes, a, b) ==
    /\ float(strikes[a].key) < float(strikes[b].key)
    /\ InWindow(float(strikes[a].key), evalIn.price,
                evalIn.p.min_strike_pct, evalIn.p.max_strike_pct)
    /\ InWindow(float(strikes[b].key), evalIn.price,
                evalIn.p.min_strike_pct, evalIn.p.max_strike_pct)
    /\ float(strikes[b].key) - float(strikes[a].key) <= evalIn.p.max_spread * 100
    /\ TradableLeg(strikes[a]) /\ TradableLeg(strikes[b])
    /\ evalIn.p.min_dte <= strikes[b].opts[1].expirationDate - Today
    /\ strikes[b].opts[1].expirationDate - Today <= evalIn.p.max_dte

\* the record buys the contract of strike a and sells the contract of strike b
RecordOfPair(rec, strikes, a, b) ==
    /\ rec.lowerStrike = float(strikes[a].key) /\ rec.upperStrike = float(strikes[b].key)
    /\ rec.lowerBid = strikes[a].opts[1].bid /\ rec.lowerAsk = strikes[a].opts[1].ask
    /\ rec.upperBid = strikes[b].opts[1].bid /\ rec.upperAsk = strikes[b].opts[1].ask
    /\ rec.lowerMid = MidOf(strikes[a]) /\ rec.upperMid = MidOf(strikes[b])

\* the candidate pair is worth entering: lowerMid > upperMid and maxGain > 0
Gainful(strikes, a, b) ==
    /\ MidOf(strikes[a]) > MidOf(strikes[b])
    /\ (float(strikes[b].key) - float(strikes[a].key)) * 100
       - (MidOf(strikes[a]) - MidOf(strikes[b])) * 100 > 0

\* the gainful candidate pairs of the chain
GainfulPairs ==
    {t \in UNION {{<<e, a, b>> : a, b \in 1..Len(evalIn.call_map[e].strikes)} :
                  e \in 1..Len(evalIn.call_map)} :
        /\ CandidatePair(evalIn.call_map[t[1]].strikes, t[2], t[3])
        /\ Gainful(evalIn.call_map[t[1]].strikes, t[2], t[3])}

ClaimedCost(entry) == (evalIn.price - MidOf(entry)) * 100
ClaimedMaxProfit(entry) == float(entry.key) * 100 - ClaimedCost(entry)
ClaimedPctReturn(entry) ==
    IF ClaimedCost(entry) = 0 THEN FracZero
    ELSE FracTimes(Frac(ClaimedMaxProfit(entry), ClaimedCost(entry)), 100)
ClaimedAnnualized(entry) ==
    AnnualizationLaw(ClaimedPctReturn(entry), entry.opts[1].expirationDate - Today)

\* a strike of the chain is a candidate of the one-leg strategies: in range,
\* its contract tradable, its dte within the bounds
CandidateLeg(entry) ==
    /\ InWindow(float(entry.key), evalIn.price, evalIn.p.min_strike_pct, evalIn.p.max_strike_pct)
    /\ TradableLeg(entry)
    /\ evalIn.p.min_dte <= entry.opts[1].expirationDate - Today
    /\ entry.opts[1].expirationDate - Today <= evalIn.p.max_dte

\* the covered call record of this strike entry, with the claimed metrics
CoveredCallOf(rec, entry) ==
    /\ rec.strike = float(entry.key)
    /\ rec.bid = entry.opts[1].bid /\ rec.ask = entry.opts[1].ask
    /\ rec.metrics.cost = ClaimedCost(entry)
    /\ rec.metrics.maxProfit = ClaimedMaxProfit(entry)
    /\ FracEq(rec.metrics.pctCall, ClaimedPctReturn(entry))

\* C21: the covered call emits, for each tradable in-range call with dte
\* within bounds, a record exactly when pctReturn >= 0 and its annualized
\* value >= 0, where cost = (price - mid)*100, mid = (bid+ask)/2, maxProfit =
\* strike*100 - cost and pctReturn = maxProfit/cost*100 (0 if cost is 0); the
\* record carries these values.
C21_CoveredCallRecords ==
    \A e \in 1..Len(evalIn.call_map) : \A k \in 1..Len(evalIn.call_map[e].strikes) :
        (evalIn.kind = "covered_call" /\ evalOut # Pending
         /\ CandidateLeg(evalIn.call_map[e].strikes[k]))
        => ((\E i \in 1..Len(evalOut.records) :
                CoveredCallOf(evalOut.records[i], evalIn.call_map[e].strikes[k]))
            <=> (/\ ~FracLess(ClaimedPctReturn(evalIn.call_map[e].strikes[k]), FracZero)
                 /\ ~FracLess(ClaimedAnnualized(evalIn.call_map[e].strikes[k]), FracZero)))

\* the call entry and the put entry of one strike, under one expiration, form
\* a candidate of the collar: the strike in range, both contracts tradable,
\* the dte within the bounds
CollarCandidate(call_entry, put_entry) ==
    /\ float(call_entry.key) = float(put_entry.key)
    /\ CandidateLeg(call_entry)
    /\ TradableLeg(put_entry)

\* the collar record of this strike, with netCost and collar as claimed
CollarOf(rec, call_entry, put_entry) ==
    /\ rec.strike = float(call_entry.key)
    /\ rec.callMid = MidOf(call_entry) /\ rec.putMid = MidOf(put_entry)
    /\ rec.netCost = (evalIn.price - MidOf(call_entry) + MidOf(put_entry)) * 100
    /\ rec.collar = (float(call_entry.key) - evalIn.price
                     + MidOf(call_entry) - MidOf(put_entry)) * 100
    /\ (rec.netCost = 0 \/ rec.dte = 0) => rec.annReturn = FracZero

\* C22: the collar emits, for every strike present in both the call map and
\* the put map of one expiration (in range, both legs tradable, dte within
\* bounds), a record exactly when collar > 0, where netCost = (price - callMid
\* + putMid)*100 and collar = (strike - price + callMid - putMid)*100;
\* annReturn is 0 when netCost or dte is 0.
C22_CollarRecords ==
    \A e \in 1..Len(evalIn.call_map) : \A f \in 1..Len(evalIn.put_map) :
    \A k \in 1..Len(evalIn.call_map[e].strikes) : \A n \in 1..Len(evalIn.put_map[f].strikes) :
        (/\ evalIn.kind = "collar" /\ evalOut # Pending
         /\ evalIn.call_map[e].exp = evalIn.put_map[f].exp
         /\ CollarCandidate(evalIn.call_map[e].strikes[k], evalIn.put_map[f].strikes[n]))
        => ((\E i \in 1..Len(evalOut.records) :
                CollarOf(evalOut.records[i], evalIn.call_map[e].strikes[k],
                         evalIn.put_map[f].strikes[n]))
            <=> (float(evalIn.call_map[e].strikes[k].key) - evalIn.price
                 + MidOf(evalIn.call_map[e].strikes[k])
                 - MidOf(evalIn.put_map[f].strikes[n])) * 100 > 0)

(***************************************************************************)
(* Properties of the strike lookup (checked under EvalSpec)                *)
(***************************************************************************)

\* the key formats probed for a strike, in order: exact float string,
\* integer-truncated string, one-decimal string
ProbeForms(strike) == << str_float(strike), str_int(strike), format_1f(strike) >>

\* the first probed format that is a key of the strike map, or None
Probed(strike_map, strike) ==
    IF \A i \in 1..3 : ~HasKey(strike_map, ProbeForms(strike)[i]) THEN None
    ELSE ProbeForms(strike)[CHOOSE i \in 1..3 :
                               /\ HasKey(strike_map, ProbeForms(strike)[i])
                               /\ \A j \in 1..(i - 1) : ~HasKey(strike_map, ProbeForms(strike)[j])]

\* the strike is available: a probed format is a key, and the first such key
\* holds a contract
Available(strike_map, strike) ==
    /\ Probed(strike_map, strike) # None
    /\ GetOpts(strike_map, Probed(strike_map, strike)) # <<>>

\* the legs of a spread record: the chain side, the strike, the quotes reported
Leg(side, strike, bid, ask) == [side |-> side, strike |-> strike, bid |-> bid, ask |-> ask]
Legs(rec) ==
    IF evalIn.kind = "call_spread"
    THEN { Leg("call", rec.lowerStrike, rec.lowerBid, rec.lowerAsk),
           Leg("call", rec.upperStrike, rec.upperBid, rec.upperAsk) }
    ELSE IF evalIn.kind = "put_spread"
    THEN { Leg("put", rec.lowerStrike, rec.lowerBid, rec.lowerAsk),
           Leg("put", rec.higherStrike, rec.higherBid, rec.higherAsk) }
    ELSE { Leg("put", rec.putLowerStrike, rec.putLowerBid, rec.putLowerAsk),
           Leg("put", rec.putHigherStrike, rec.putHigherBid, rec.putHigherAsk),
           Leg("call", rec.callLowerStrike, rec.callLowerBid, rec.callLowerAsk),
           Leg("call", rec.callHigherStrike, rec.callHigherBid, rec.callHigherAsk) }

\* the chain side of a leg
SideMap(side) == IF side = "call" THEN evalIn.call_map ELSE evalIn.put_map

\* the leg reports the first contract under the first probed key of its strike
LegProbed(leg) ==
    \E e \in 1..Len(SideMap(leg.side)) :
        /\ Available(SideMap(leg.side)[e].strikes, leg.strike)
        /\ GetOpts(SideMap(leg.side)[e].strikes,
                   Probed(SideMap(leg.side)[e].strikes, leg.strike))[1].bid = leg.bid
        /\ GetOpts(SideMap(leg.side)[e].strikes,
                   Probed(SideMap(leg.side)[e].strikes, leg.strike))[1].ask = leg.ask

\* strikes lo < hi of a call strike map are both available and make a call
\* spread worth entering under the parameters of the evaluation
AvailablePair(strike_map, lo, hi) ==
    /\ lo < hi /\ hi - lo <= evalIn.p.max_spread * 100
    /\ InWindow(lo, evalIn.price, evalIn.p.min_strike_pct, evalIn.p.max_strike_pct)
    /\ InWindow(hi, evalIn.price, evalIn.p.min_strike_pct, evalIn.p.max_strike_pct)
    /\ Available(strike_map, lo) /\ Available(strike_map, hi)
    /\ \E x \in {[key |-> lo, opts |-> GetOpts(strike_map, Probed(strike_map, lo))]} :
       \E y \in {[key |-> hi, opts |-> GetOpts(strike_map, Probed(strike_map, hi))]} :
          /\ TradableLeg(x) /\ TradableLeg(y)
          /\ evalIn.p.min_dte <= y.opts[1].expirationDate - Today
          /\ y.opts[1].expirationDate - Today <= evalIn.p.max_dte
          /\ MidOf(x) > MidOf(y)
          /\ (hi - lo) * 100 - (MidOf(x) - MidOf(y)) * 100 > 0

\* C23: the strike lookup probes the key formats exact float string,
\* integer-truncated string, one-decimal string and takes the first hit; a
\* strike none of whose forms is a key, or whose key holds no contract, is
\* unavailable: no record uses it, the combinations of the other strikes are
\* still evaluated, and no error is raised.
C23_UnavailableStrikeSkipped ==
    (evalIn.kind \in {"call_spread", "put_spread", "iron_condor"} /\ evalOut # Pending)
    => /\ evalOut.exc = "none"
       /\ \A i \in 1..Len(evalOut.records) : \A leg \in Legs(evalOut.records[i]) : LegProbed(leg)
       /\ evalIn.kind = "call_spread"
          => \A e \in 1..Len(evalIn.call_map) :
             \A lo, hi \in Range(StrikesOf(evalIn.call_map[e].strikes)) :
                AvailablePair(evalIn.call_map[e].strikes, lo, hi)
                => \E i \in 1..Len(evalOut.records) :
                      /\ evalOut.records[i].lowerStrike = lo
                      /\ evalOut.records[i].upperStrike = hi

\* C23 happens: of three call strikes the middle one, keyed "9.50", is found
\* by no probed format; the spread over the other two is emitted, alone
C23_Witness ==
    /\ evalIn.kind = "call_spread" /\ evalIn.call_map = GappedCalls
    /\ ~Available(GappedCalls[1].strikes, 950)
    /\ evalOut # Pending /\ evalOut.exc = "none"
    /\ Len(evalOut.records) = 1
    /\ evalOut.records[1].lowerStrike = 900 /\ evalOut.records[1].upperStrike = 1000

\* the leg reports the quotes of a contract stored under a key whose numeric
\* value is the leg's strike
LegOfItsStrike(leg) ==
    \E e \in 1..Len(SideMap(leg.side)) : \E k \in 1..Len(SideMap(leg.side)[e].strikes) :
        /\ float(SideMap(leg.side)[e].strikes[k].key) = leg.strike
        /\ SideMap(leg.side)[e].strikes[k].opts # <<>>
        /\ SideMap(leg.side)[e].strikes[k].opts[1].bid = leg.bid
        /\ SideMap(leg.side)[e].strikes[k].opts[1].ask = leg.ask

\* C24: in every spread record (call spread, put spread, both sides of the
\* iron condor) the quotes reported for a leg are those of the contract whose
\* chain key is numerically equal to the leg's strike, for any set of strike
\* keys (such as "9" and "9.50" together): resolving a strike never yields the
\* contract stored under a key of another value.
C24_LegQuotesOfOwnStrike ==
    (evalIn.kind \in {"call_spread", "put_spread", "iron_condor"} /\ evalOut # Pending)
    => \A i \in 1..Len(evalOut.records) : \A leg \in Legs(evalOut.records[i]) :
          LegOfItsStrike(leg)

(***************************************************************************)
(* The OAuth flow and the access token: /start-token-refresh, /callback    *)
(* and the bearer token of an upstream request, at the instants around the *)
(* expiry of an access token                                               *)
(***************************************************************************)

\* a query parameter or token that is present
Str(s) == [str |-> s]

\* secrets.token_urlsafe(16): the states /start-token-refresh can issue
OAuthStates == {Str("s1"), Str("s2")}

\* GET /start-token-refresh
start_token_refresh ==
    /\ pc = "idle"
    /\ \E s \in OAuthStates :
          /\ oauth_state' = s
          /\ response' = [status |-> 302, location |-> "oauth/authorize", state |-> s]
    /\ pc' = "responded"
    /\ request' = [route |-> "start_token_refresh", input |-> None]
    /\ upstream' = <<>> /\ wire' = <<>> /\ result' = NotCalled
    /\ UNCHANGED <<schwab_api, now, config_file, backup_file, new_refresh_token,
                   refresh_token, env_file, evalIn, evalOut>>

\* request.args of GET /callback: each of code, state, error present or not
CallbackArgs == [code : {None, Str("c1")}, state : {None} \cup OAuthStates,
                 error : {None, Str("access_denied")}]

\* the token endpoint's answers to the code exchange: a refresh token, a 200
\* without one, a refusal, and no answer (requests.post raises)
ExchangeAnswers ==
    { [status |-> 200, refresh_token |-> Str("rt2")], [status |-> 200, refresh_token |-> None],
      [status |-> 400, refresh_token |-> None], [status |-> 0, refresh_token |-> None] }

\* exchange_code_for_token: the POST of the code; on 200 the globals, .env
\* (update_env_file swallows a failed write) and schwab_api.refresh_token
exchange_code_for_token(code, answer, written) ==
    /\ upstream' = <<answer>>
    /\ wire' = << [kind |-> "exchange", symbol |-> "", sent |-> code, status |-> answer.status] >>
    /\ IF answer.status = 200
       THEN /\ new_refresh_token' = answer.refresh_token
            /\ env_file' = IF written THEN answer.refresh_token ELSE env_file
            /\ refresh_token' = answer.refresh_token
            /\ response' = [status |-> 302, location |-> "/?token_success=1"]
       ELSE /\ UNCHANGED <<new_refresh_token, env_file, refresh_token>>
            /\ response' = [status |-> 500, error |-> "Failed to exchange code for token"]

\* GET /callback
oauth_callback ==
    /\ pc = "idle"
    /\ \E args \in CallbackArgs : \E answer \in ExchangeAnswers : \E written \in BOOLEAN :
          /\ request' = [route |-> "oauth_callback", input |-> args]
          /\ IF args.error # None
             THEN /\ response' = [status |-> 400, error |-> "OAuth error"]
                  /\ upstream' = <<>> /\ wire' = <<>>
                  /\ UNCHANGED <<new_refresh_token, env_file, refresh_token>>
             ELSE IF args.state # oauth_state
             THEN /\ response' = [status |-> 400, error |-> "Invalid state. CSRF detected."]
                  /\ upstream' = <<>> /\ wire' = <<>>
                  /\ UNCHANGED <<new_refresh_token, env_file, refresh_token>>
             ELSE exchange_code_for_token(args.code, answer, written)
    /\ pc' = "responded" /\ result' = NotCalled
    /\ UNCHANGED <<schwab_api, now, config_file, backup_file, oauth_state, evalIn, evalOut>>

\* the token endpoint's answers to a refresh: no rotation, a rotated refresh
\* token (two of them), a refusal
AuthTokens == {Token(200, ""), Token(200, "rt1"), Token(200, "rt3"), Token(401, "")}

\* _auth_headers: the bearer token of one upstream request
_auth_headers ==
    /\ pc = "idle"
    /\ \E token \in AuthTokens : \E h \in {_valid_access_token(Api, now, "A", token)} :
          /\ upstream' = << [token |-> token] >>
          /\ wire' = h.api.wire
          /\ response' = IF h.exc = "none"
                         THEN [status |-> 200, Authorization |-> h.api._access_token]
                         ELSE [status |-> 500, error |-> h.exc]
          /\ schwab_api' = [_access_token |-> h.api._access_token,
                            _token_expiry |-> h.api._token_expiry,
                            _refresh_token |-> h.api._refresh_token]
    /\ pc' = "responded" /\ result' = NotCalled
    /\ request' = [route |-> "_auth_headers", input |-> None]
    /\ UNCHANGED <<now, config_file, admVars, evalIn, evalOut>>

\* the instants around the expiry of an access token obtained at time 0
Instants == {ExpiresIn - ExpiryMargin - 1, ExpiresIn - ExpiryMargin, ExpiresIn}

\* time passes between requests
Elapse ==
    /\ pc = "idle"
    /\ \E t \in Instants : t > now /\ t <= MaxTime /\ now' = t
    /\ UNCHANGED <<pc, request, upstream, wire, result, response, schwab_api, config_file,
                   admVars, evalIn, evalOut>>

OAuthInit ==
    /\ Idle /\ schwab_api = InitialApi /\ now = 0 /\ config_file = NoFile /\ AtStartUp
    /\ evalIn = [kind |-> "none"] /\ evalOut = Pending

OAuthNext ==
    \/ start_token_refresh
    \/ oauth_callback
    \/ _auth_headers
    \/ Elapse
    \/ Respond

OAuthSpec == OAuthInit /\ [][OAuthNext]_vars

(***************************************************************************)
(* Properties of the OAuth flow and the access token (checked under        *)
(* OAuthSpec)                                                              *)
(***************************************************************************)

\* /callback has answered after exchanging a code for a refresh token
Exchanged ==
    /\ pc = "responded" /\ request.route = "oauth_callback"
    /\ Len(wire) = 1 /\ upstream[1].status = 200 /\ upstream[1].refresh_token # None

\* the refresh token the instance's next access-token refresh sends
NextRefreshSends ==
    _refresh_access_token(Api, now, "A", Token(200, "")).api.wire[1].sent

\* C25: after a successful OAuth code exchange (the token endpoint answers 200
\* with a refresh_token) the next access-token refresh of the application's
\* SchwabAPI instance sends the newly obtained refresh token, not the one
\* loaded at start-up.
C25_ExchangedTokenIsUsed ==
    Exchanged => /\ Str(NextRefreshSends) = upstream[1].refresh_token
                 /\ NextRefreshSends # REFRESH_TOKEN

\* C26: /callback exchanges an authorization code only if /start-token-refresh
\* was called before and the callback's state parameter equals the state most
\* recently issued; a callback before any /start-token-refresh, with no state
\* parameter, never triggers an exchange.
C26_ExchangeOnlyForIssuedState ==
    (pc = "responded" /\ request.route = "oauth_callback" /\ Len(wire) > 0)
    => /\ oauth_state \in OAuthStates
       /\ request.input.state = oauth_state

\* an upstream request gets its bearer token in this step
AuthStep == pc = "idle" /\ pc' = "responded" /\ request'.route = "_auth_headers"

\* at the check the cached access token is more than 60 seconds from its expiry
CacheFresh == schwab_api._access_token # "" /\ schwab_api._token_expiry - now > 60

\* the refresh of this step was answered with a rotated refresh token
Rotated ==
    /\ wire' # <<>>
    /\ upstream'[1].token.status = 200 /\ upstream'[1].token.refresh_token # ""

\* C27: the bearer token of an upstream request is the cached access token
\* only if, at the check, its expiry is more than 60 seconds away; otherwise
\* exactly one token refresh is performed first; a refresh sends the stored
\* refresh token, a rotated refresh_token in its answer replaces the stored
\* one and nothing else does, so every later refresh sends the rotated token.
C27_CachedTokenAndRotation ==
    [][ /\ AuthStep =>
            /\ (wire' = <<>>) => /\ CacheFresh
                                 /\ response'.Authorization = schwab_api._access_token
            /\ ~CacheFresh => Len(wire') = 1 /\ wire'[1].kind = "token"
            /\ wire' # <<>> => wire'[1].sent = schwab_api._refresh_token
            /\ Rotated => schwab_api'._refresh_token = upstream'[1].token.refresh_token
        /\ schwab_api'._refresh_token # schwab_api._refresh_token => AuthStep /\ Rotated
      ]_vars

\* C27 happens: 60 seconds before the expiry of the cached access token a
\* request refreshes it, and the refresh sends the token rotated in earlier
C27_Witness ==
    /\ pc = "responded" /\ request.route = "_auth_headers"
    /\ now = ExpiresIn - ExpiryMargin
    /\ Len(wire) = 1 /\ wire[1].kind = "token" /\ wire[1].sent = "rt1"
    /\ response.status = 200

(***************************************************************************)
(* Properties of the batch run's summary (checked under Spec)              *)
(***************************************************************************)

\* the batch run loops over the enabled stocks in this step
BatchLooped ==
    /\ pc = "idle" /\ pc' = "responded"
    /\ request'.route = "batch_run_put_call_spread" /\ response'.status = 200

\* the totals after the first k enabled stocks were processed
BatchAfter(k) ==
    BatchLoop(config_file, Api, now, SubSeq(EnabledStocks(config_file), 1, k),
              SubSeq(upstream', 1, k))

\* the symbols of the error entries
FailedSymbols(errors) == {errors[i].symbol : i \in 1..Len(errors)}

\* C28: in the batch run, after every processed stock and in the final
\* response, successful + failed <= total_stocks, with equality at the end;
\* summary.errors has as many entries as failed; and a stock counted as
\* failed contributes no record.
C28_BatchSummaryCounts ==
    [][ BatchLooped =>
          /\ \A k \in 0..Len(EnabledStocks(config_file)) : \A acc \in {BatchAfter(k)} :
                /\ acc.successful + acc.failed = k
                /\ acc.successful + acc.failed <= response'.summary.total_stocks
                /\ Len(acc.errors) = acc.failed
                /\ \A n \in 1..Len(acc.all_records) :
                      acc.all_records[n].symbol \notin FailedSymbols(acc.errors)
          /\ \A s \in {response'.summary} :
                /\ s.total_stocks = Len(EnabledStocks(config_file))
                /\ s.successful + s.failed = s.total_stocks
                /\ Len(s.errors) = s.failed
                /\ \A n \in 1..Len(response'.records) :
                      response'.records[n].symbol \notin FailedSymbols(s.errors)
      ]_vars

\* C28 happens: a batch run over three stocks of which two fail, with the
\* records of the third in the response
C28_Witness ==
    /\ pc = "responded" /\ request.route = "batch_run_put_call_spread"
    /\ response.status = 200
    /\ response.summary.total_stocks = 3
    /\ response.summary.failed = 2 /\ response.summary.successful = 1
    /\ Len(response.records) > 0

(***************************************************************************)
(* The configuration routes: GET and POST /api/config/put-call-spread      *)
(***************************************************************************)

\* a configuration file cut short by a failed json.dump
Truncated == [truncated |-> TRUE]

\* request bodies of the POST: the configurations, one without defaultParams,
\* one whose defaultParams lack maxSpread, and the JSON null
SaveBodies ==
    Configs \cup
    { [name |-> "bare", stocks |-> <<>>],
      [name |-> "short", stocks |-> <<>>,
       defaultParams |-> [minStrikePct |-> 90, maxStrikePct |-> 100, minDte |-> 0,
                          maxDte |-> 30]],
      None }

\* save, lines 266-275: the required fields and the required default parameters
ConfigError(config) ==
    IF config = None THEN "TypeError"
    ELSE IF ~({"name", "defaultParams", "stocks"} \subseteq DOMAIN config)
    THEN "Invalid config structure"
    ELSE IF ~({"minStrikePct", "maxStrikePct", "minDte", "maxDte", "maxSpread"}
              \subseteq DOMAIN config.defaultParams)
    THEN "Invalid default parameters"
    ELSE "none"

\* save, line 278: config["lastUpdated"] = utcnow
Stamped(config, time) ==
    [f \in DOMAIN config \cup {"lastUpdated"} |->
        IF f = "lastUpdated" THEN time ELSE config[f]]

\* what the file system does to the save: nothing fails; replace fails;
\* open(config_path, 'w') fails; json.dump fails after the file was opened
SaveOutcomes == {"saved", "replace_fails", "open_fails", "dump_fails"}

\* save, lines 286-293: the two files after the backup and the write
Written(config, time, outcome) ==
    IF outcome = "replace_fails" /\ config_file # NoFile
    THEN [config_file |-> config_file, backup_file |-> backup_file, raised |-> TRUE]
    ELSE [config_file |-> CASE outcome = "open_fails" -> NoFile
                            [] outcome = "dump_fails" -> Truncated
                            [] OTHER -> Stamped(config, time),
          backup_file |-> IF config_file # NoFile THEN config_file ELSE backup_file,
          raised |-> outcome \in {"open_fails", "dump_fails"}]

\* POST /api/config/put-call-spread
save_put_call_spread_config ==
    /\ pc = "idle"
    /\ \E config \in SaveBodies : \E outcome \in SaveOutcomes :
       \E w \in {Written(config, now, outcome)} :
          /\ request' = [route |-> "save_put_call_spread_config", input |-> config]
          /\ IF ConfigError(config) = "TypeError"
             THEN /\ response' = [status |-> 500, error |-> "Failed to save config"]
                  /\ UNCHANGED <<config_file, backup_file>>
             ELSE IF ConfigError(config) # "none"
             THEN /\ response' = [status |-> 400, error |-> ConfigError(config)]
                  /\ UNCHANGED <<config_file, backup_file>>
             ELSE /\ config_file' = w.config_file
                  /\ backup_file' = w.backup_file
                  /\ response' = IF w.raised
                                 THEN [status |-> 500, error |-> "Failed to save config"]
                                 ELSE [status |-> 200, success |-> TRUE]
    /\ pc' = "responded" /\ upstream' = <<>> /\ wire' = <<>> /\ result' = NotCalled
    /\ UNCHANGED <<schwab_api, now, oauth_state, new_refresh_token, refresh_token, env_file,
                   evalIn, evalOut>>

\* GET, lines 238-251: the configuration served when no file exists
DefaultConfig(time) ==
    [name |-> "My Put-Call Spreads",
     description |-> "Combined put and call spread opportunities",
     lastUpdated |-> time,
     defaultParams |-> [minStrikePct |-> 30, maxStrikePct |-> 90, minDte |-> 30,
                        maxDte |-> 90, maxSpread |-> 20],
     stocks |-> <<>>]

\* GET, lines 235-257: the response for the file at the config path
Served(file, time) ==
    IF file = NoFile THEN [status |-> 200, config |-> DefaultConfig(time)]
    ELSE IF file = Truncated THEN [status |-> 500, error |-> "Failed to load config"]
    ELSE [status |-> 200, config |-> file]

\* GET /api/config/put-call-spread
get_put_call_spread_config ==
    /\ pc = "idle"
    /\ request' = [route |-> "get_put_call_spread_config", input |-> None]
    /\ response' = Served(config_file, now)
    /\ pc' = "responded" /\ upstream' = <<>> /\ wire' = <<>> /\ result' = NotCalled
    /\ UNCHANGED <<schwab_api, now, config_file, admVars, evalIn, evalOut>>

ConfigInit ==
    /\ Idle /\ schwab_api = InitialApi /\ now = 0 /\ AtStartUp
    /\ config_file \in {NoFile} \cup Configs
    /\ evalIn = [kind |-> "none"] /\ evalOut = Pending

ConfigNext ==
    \/ get_put_call_spread_config
    \/ save_put_call_spread_config
    \/ Respond
    \/ Tick

ConfigSpec == ConfigInit /\ [][ConfigNext]_vars

(***************************************************************************)
(* Properties of the configuration routes (checked under ConfigSpec)       *)
(***************************************************************************)

\* a save of a body that passes the validation is answered in this step
ValidSave ==
    /\ pc = "idle" /\ pc' = "responded"
    /\ request'.route = "save_put_call_spread_config"
    /\ ConfigError(request'.input) = "none"

\* C29: saving never loses the last good configuration: if a configuration
\* file existed and the save fails after validation, the config path still
\* holds the previous configuration and a later GET returns it; on success
\* the config path holds the new configuration and the .backup file the
\* previous one.
C29_SaveKeepsLastGoodConfig ==
    [][ ValidSave =>
          /\ (response'.status # 200 /\ config_file \notin {NoFile, Truncated})
             => /\ config_file' = config_file
                /\ Served(config_file', now') = [status |-> 200, config |-> config_file]
          /\ response'.status = 200
             => /\ config_file' = Stamped(request'.input, now)
                /\ config_file # NoFile => backup_file' = config_file
      ]_vars

(***************************************************************************)
(* Properties of the put-call spread under a moving quote (checked under   *)
(* Spec)                                                                   *)
(***************************************************************************)

\* the batch run has answered with the records of its put-call spread
\* evaluations, one evaluation per enabled stock
BatchAnswered ==
    /\ pc = "responded" /\ request.route = "batch_run_put_call_spread"
    /\ response.status = 200

\* the strike range price * min_strike_pct / 100 .. price * max_strike_pct / 100
\* a record of the stock was filtered against, in hundredths of a cent
RangeOf(rec, stock) ==
    << rec.price * StockPayload(request.input, stock).min_strike_pct,
       rec.price * StockPayload(request.input, stock).max_strike_pct >>

\* C30: within one put-call spread evaluation every record of a symbol, call
\* spread and put spread alike, reports the same underlying price and was
\* filtered against the same strike range, even when the provider's quote for
\* the symbol changes while the evaluation runs.
C30_OnePricePerSymbol ==
    BatchAnswered
    => \A k \in 1..Len(BatchStocks) :
       \A i, j \in 1..Len(response.records) :
          (response.records[i].symbol = BatchStocks[k].symbol
           /\ response.records[j].symbol = BatchStocks[k].symbol)
          => /\ response.records[i].price = response.records[j].price
             /\ RangeOf(response.records[i], BatchStocks[k])
                = RangeOf(response.records[j], BatchStocks[k])
====
